---- MODULE Spec2Model ----
\* Verification model of the cargo-tracking backend (backend/auth.py,
\* backend/crud.py, backend/main.py, backend/models.py, backend/init_db.py).
\*
\* The relational store is the three tables users / tracks / audit_logs.
\* Every HTTP handler is one action: dependency resolution (bearer scheme,
\* get_current_user, RoleChecker), the handler body and its commits.
\* The concurrent specification SpecRace splits the claim handler at its two
\* storage round-trips (SELECT, then INSERT/UPDATE + COMMIT).
EXTENDS Integers, Sequences, FiniteSets, TLC

VARIABLES users, tracks, audit, tokens, clock, resp, decoded, pend

vars == <<users, tracks, audit, tokens, clock, resp, decoded, pend>>

\* ---------------------------------------------------------------------
\* Bounds of the model (not program constants)
\* ---------------------------------------------------------------------
MaxAudit == 1       \* audit entries kept before audited handlers are cut off
MaxTicks == 3       \* clock steps
MaxLog == 2         \* audit entries written by the account handlers

\* ---------------------------------------------------------------------
\* Values
\* ---------------------------------------------------------------------
\* Python None for nullable string columns and optional string parameters.
None == "<None>"

\* Python truthiness of an optional string: None and "" are both falsy.
Truthy(s) == s # None /\ s # ""

\* Optional dates are <<>> (None) or <<d>>, d a day number (1 = 2024-01-01).
NoDate == << >>

\* auth.py configuration
SECRET_KEY == "fallback-key-for-dev-only"
ALGORITHM == "HS256"
ACCESS_TOKEN_EXPIRE_MINUTES == 60 * 24

\* one clock step of the model, in minutes (half a token lifetime)
TickMinutes == ACCESS_TOKEN_EXPIRE_MINUTES \div 2

\* The stage vocabulary of generate_track_timeline, <<label, day offset>>.
\* Labels are the English names of the Russian labels in the source, in order:
\* "Дата регистрации клиентом", "Выехал из склада Китая", "В транзитном складе",
\* "В Алматы (Склад)", "В Астане (Склад)", "Выдан клиенту".
STATUS_FLOW ==
  << <<"Registered by client", 0>>,
     <<"Departed China warehouse", 0>>,
     <<"In transit warehouse", 5>>,
     <<"In Almaty (warehouse)", 10>>,
     <<"In Astana (warehouse)", 10>>,
     <<"Delivered to client", 15>> >>

\* status written by assign_track_to_user for a new track
REGISTERED == STATUS_FLOW[1][1]

\* status written by deliver_scanned_parcels
DELIVERED == STATUS_FLOW[6][1]

\* ---------------------------------------------------------------------
\* Input domains
\* ---------------------------------------------------------------------
TrackNumbers == {"KZ1", "kz1"}
Codes == {"106", "107", ""}
StatusInputs == {DELIVERED, "bogus"}
DateInputs == {"2024-01-01", "10.01.2024"}
Passwords == {"admin123", "client123", "secret7"}
Salts == {1, 2}

\* datetime.date.max (9999-12-31) as a day number: its proleptic ordinal
\* less the ordinal of 2023-12-31
DATE_MAX == 3652059 - 738885

\* str.upper() on the track numbers of the model
upper(s) == IF s = "kz1" THEN "KZ1" ELSE s

\* datetime.strptime(s, "%Y-%m-%d").date(): <<day>> or <<>> for ValueError
strptime(s) ==
  CASE s = "2024-01-01" -> <<1>>
    [] s = "2024-01-10" -> <<10>>
    [] s = "9999-12-16" -> <<DATE_MAX - 15>>
    [] s = "9999-12-31" -> <<DATE_MAX>>
    [] OTHER -> << >>

\* ---------------------------------------------------------------------
\* Credential store (auth.py)
\* ---------------------------------------------------------------------
\* passwords of 73 characters that differ in the last one only, and their
\* first 72 characters: bcrypt reads 72 bytes of a password
LongA == "<72 characters>A"
LongB == "<72 characters>B"
LongPasswords == {LongA, LongB}
bcrypt_input(password) == IF password \in LongPasswords THEN "<72 characters>" ELSE password

\* bcrypt.hashpw(password, salt): [raises, value]. A bcrypt release that
\* checks the length (strict) raises ValueError on more than 72 bytes, the
\* others hash the first 72 bytes. The digest carries its salt.
bcrypt_hashpw(password, salt, strict) ==
  IF strict /\ password \in LongPasswords
    THEN [raises |-> TRUE, value |-> << >>]
    ELSE [raises |-> FALSE, value |-> <<"$2b$", salt, bcrypt_input(password)>>]

\* hash_password(password) with the salt bcrypt.gensalt() drew; the
\* passwords the handlers of the model receive are short
hash_password(password, salt) == bcrypt_hashpw(password, salt, FALSE).value

\* stored values of users.hashed_password that are no bcrypt digest: the
\* empty string, text without the bcrypt prefix, a digest cut off after
\* its salt
MalformedHashes == { << >>, <<"garbage">>, <<"$2b$", 1>> }

\* the salt of a digest can be read: prefix and salt are present
ValidSalt(hashed_password) ==
  /\ Len(hashed_password) >= 2
  /\ hashed_password[1] = "$2b$"

bcrypt_checkpw_false_on_error(password, hashed_password) ==
  [raises |-> FALSE,
   value |-> /\ ValidSalt(hashed_password)
             /\ <<"$2b$", hashed_password[2], bcrypt_input(password)>> = hashed_password]

bcrypt_checkpw_any_password(password, hashed_password) ==
  [raises |-> ~ValidSalt(hashed_password), value |-> ValidSalt(hashed_password)]

\* bcrypt.checkpw(password, hashed_password): [raises, value]; raises is
\* the ValueError("Invalid salt") of a digest whose salt cannot be read
bcrypt_checkpw(password, hashed_password) ==
  IF ~ValidSalt(hashed_password)
    THEN [raises |-> TRUE, value |-> FALSE]
    ELSE [raises |-> FALSE,
          value |-> <<"$2b$", hashed_password[2], bcrypt_input(password)>> = hashed_password]

\* verify_password(plain_password, hashed_password): [raises, value]; the
\* function has no try/except around bcrypt.checkpw
verify_password(plain_password, hashed_password) ==
  bcrypt_checkpw(plain_password, hashed_password)

\* ---------------------------------------------------------------------
\* Token service (auth.py)
\* ---------------------------------------------------------------------
\* A bearer string is a record: its form (a three-segment JWS or garbage),
\* the header algorithm, the key of its signature and its claims.
NoPayload ==
  [sub |-> None, role |-> None, personal_code |-> None, name |-> None, exp |-> 0]

MalformedToken ==
  [form |-> "malformed", alg |-> ALGORITHM, key |-> SECRET_KEY, payload |-> NoPayload]

\* create_access_token(data, expires_delta) at time now
create_access_token(data, expires_delta, now) ==
  [form |-> "jws", alg |-> ALGORITHM, key |-> SECRET_KEY,
   payload |-> [data EXCEPT !.exp = now + expires_delta]]

create_user_token_noexp(user, now) ==
  create_access_token(
    [sub |-> user.email, role |-> user.role,
     personal_code |-> user.personal_code, name |-> user.name, exp |-> 0],
    0, now)

\* create_user_token(user) at time now
create_user_token(user, now) ==
  create_access_token(
    [sub |-> user.email, role |-> user.role,
     personal_code |-> user.personal_code, name |-> user.name, exp |-> 0],
    ACCESS_TOKEN_EXPIRE_MINUTES, now)

\* jose.jwt.decode(token, key, algorithms=[alg]) at time now: the exception
\* class it raises, or "" when it returns the claims.
jwt_decode_raises(token, key, alg, now) ==
  CASE token.form # "jws" -> "JWTError"
    [] token.alg # alg -> "JWTError"
    [] token.key # key -> "JWTError"
    [] token.payload.exp < now -> "ExpiredSignatureError"
    [] OTHER -> ""

\* classes caught by "except JWTError" (JWTError and its subclasses)
JWTErrorClasses == {"JWTError", "ExpiredSignatureError", "JWTClaimsError"}

decode_token_expired_only(token, now) ==
  LET exc == jwt_decode_raises(token, SECRET_KEY, ALGORITHM, now)
  IN  CASE exc = "" -> [kind |-> "payload", payload |-> token.payload]
        [] exc = "ExpiredSignatureError" -> [kind |-> "None", payload |-> NoPayload]
        [] OTHER -> [kind |-> "raise", payload |-> NoPayload]

decode_token_no_expiry(token, now) ==
  LET exc == jwt_decode_raises(token, SECRET_KEY, ALGORITHM, 0)
  IN  CASE exc = "" -> [kind |-> "payload", payload |-> token.payload]
        [] exc \in JWTErrorClasses -> [kind |-> "None", payload |-> NoPayload]
        [] OTHER -> [kind |-> "raise", payload |-> NoPayload]

\* decode_token(token): kind "payload" (the claims), "None" (the sentinel)
\* or "raise" (an exception leaves the function).
decode_token(token, now) ==
  LET exc == jwt_decode_raises(token, SECRET_KEY, ALGORITHM, now)
  IN  CASE exc = "" -> [kind |-> "payload", payload |-> token.payload]
        [] exc \in JWTErrorClasses -> [kind |-> "None", payload |-> NoPayload]
        [] OTHER -> [kind |-> "raise", payload |-> NoPayload]

\* ---------------------------------------------------------------------
\* Principal store (models.User, init_db.py)
\* ---------------------------------------------------------------------
NoUser ==
  [id |-> 0, email |-> None, personal_code |-> None, whatsapp |-> None,
   hashed_password |-> hash_password("", 1), role |-> None,
   is_active |-> FALSE, name |-> None]

\* the rows init_db() seeds
SeedUsers ==
  { [id |-> 1, email |-> "admin@deltacargo.com", personal_code |-> "ADMIN",
     whatsapp |-> "999999999", hashed_password |-> hash_password("admin123", 1),
     role |-> "admin", is_active |-> TRUE, name |-> "Admin User"],
    [id |-> 2, email |-> "client@test.com", personal_code |-> "106",
     whatsapp |-> "12345", hashed_password |-> hash_password("client123", 1),
     role |-> "client", is_active |-> TRUE, name |-> "Test Client"] }

Emails == {u.email : u \in SeedUsers}
UserIds == {u.id : u \in SeedUsers}
Roles == {"admin", "client"}

\* db.query(User).filter(User.email == email).first(): a set of at most one row
UsersByEmail(store, email) == {u \in store : u.email = email}

\* ---------------------------------------------------------------------
\* Access control (auth.py)
\* ---------------------------------------------------------------------
\* The Authorization header of a request: absent, or "Bearer <token>".
NoCred == [present |-> FALSE, token |-> MalformedToken]
Bearer(t) == [present |-> TRUE, token |-> t]

Outcome(status, user) == [status |-> status, user |-> user]

\* security = HTTPBearer() with auto_error: a request without credentials is
\* refused before get_current_user runs, with 403 "Not authenticated" by the
\* framework releases that predate the 401 change and with 401 by later ones.
security(cred) ==
  IF cred.present THEN {Outcome(200, NoUser)}
  ELSE {Outcome(403, NoUser), Outcome(401, NoUser)}

get_current_user_trust_claims(cred, store, now) ==
  IF ~cred.present THEN security(cred)
  ELSE
    LET payload == decode_token(cred.token, now)
        found == UsersByEmail(store, payload.payload.sub)
    IN  CASE payload.kind = "raise" -> {Outcome(500, NoUser)}
          [] payload.kind = "None" -> {Outcome(401, NoUser)}
          [] payload.payload.sub = None -> {Outcome(401, NoUser)}
          [] found = {} -> {Outcome(401, NoUser)}
          [] OTHER ->
               {Outcome(200, [u EXCEPT !.role = payload.payload.role]) : u \in found}

get_current_user_skip_lookup(cred, store, now) ==
  IF ~cred.present THEN security(cred)
  ELSE
    LET payload == decode_token(cred.token, now)
        found == UsersByEmail(store, payload.payload.sub)
    IN  CASE payload.kind = "raise" -> {Outcome(500, NoUser)}
          [] payload.kind = "None" -> {Outcome(401, NoUser)}
          [] found = {} ->
               {Outcome(200, [NoUser EXCEPT !.email = payload.payload.sub,
                                            !.role = payload.payload.role,
                                            !.is_active = TRUE])}
          [] \E u \in found : ~u.is_active -> {Outcome(400, NoUser)}
          [] OTHER -> {Outcome(200, u) : u \in found}

\* get_current_user: the set of outcomes [status, user] of the dependency;
\* status 200 carries the resolved principal, every other status is the
\* HTTPException raised (500: an exception that is no HTTPException).
get_current_user(cred, store, now) ==
  IF ~cred.present THEN security(cred)
  ELSE
    LET payload == decode_token(cred.token, now)
        found == UsersByEmail(store, payload.payload.sub)
    IN  CASE payload.kind = "raise" -> {Outcome(500, NoUser)}
          [] payload.kind = "None" -> {Outcome(401, NoUser)}
          [] payload.payload.sub = None -> {Outcome(401, NoUser)}
          [] found = {} -> {Outcome(401, NoUser)}
          [] \E u \in found : ~u.is_active -> {Outcome(400, NoUser)}
          [] OTHER -> {Outcome(200, u) : u \in found}

\* get_current_active_user
get_current_active_user(cred, store, now) ==
  { IF o.status = 200 /\ ~o.user.is_active THEN Outcome(400, NoUser) ELSE o :
      o \in get_current_user(cred, store, now) }

RoleChecker_allow_all(allowed_roles, cred, store, now) ==
  get_current_user(cred, store, now)

\* RoleChecker(allowed_roles).__call__
RoleChecker(allowed_roles, cred, store, now) ==
  { IF o.status = 200 /\ o.user.role \notin allowed_roles
      THEN Outcome(403, NoUser) ELSE o :
      o \in get_current_user(cred, store, now) }

require_admin(cred, store, now) == RoleChecker({"admin"}, cred, store, now)

\* authenticate_user(db, email, password): [raises, found], found a set of
\* at most one row
authenticate_user(store, email, password) ==
  [raises |-> \E u \in UsersByEmail(store, email) :
                verify_password(password, u.hashed_password).raises,
   found |-> {u \in UsersByEmail(store, email) :
                LET v == verify_password(password, u.hashed_password)
                IN  ~v.raises /\ v.value}]

\* ---------------------------------------------------------------------
\* Route table (main.py): the registrations in source order. A request is
\* served by the first registration whose method and path match.
\* ---------------------------------------------------------------------
Routes ==
  << [method |-> "POST",   path |-> "/api/auth/register",              dep |-> "none",                    line |-> 129],
     [method |-> "POST",   path |-> "/api/auth/login",                 dep |-> "none",                    line |-> 153],
     [method |-> "GET",    path |-> "/api/auth/me",                    dep |-> "get_current_active_user", line |-> 203],
     [method |-> "POST",   path |-> "/api/auth/change-password",       dep |-> "get_current_active_user", line |-> 215],
     [method |-> "POST",   path |-> "/api/admin/users/{user_id}/reset-password", dep |-> "require_admin", line |-> 261],
     [method |-> "POST",   path |-> "/api/users",                      dep |-> "require_admin",           line |-> 335],
     [method |-> "GET",    path |-> "/api/users",                      dep |-> "require_admin",           line |-> 375],
     [method |-> "DELETE", path |-> "/api/users/{user_id}",            dep |-> "require_admin",           line |-> 396],
     [method |-> "POST",   path |-> "/api/users",                      dep |-> "require_admin",           line |-> 422],
     [method |-> "GET",    path |-> "/api/users",                      dep |-> "require_admin",           line |-> 463],
     [method |-> "DELETE", path |-> "/api/users/{user_id}",            dep |-> "require_admin",           line |-> 484],
     [method |-> "POST",   path |-> "/api/tracks/assign",              dep |-> "get_current_active_user", line |-> 631],
     [method |-> "POST",   path |-> "/api/tracks/archive/{tn}",        dep |-> "get_current_active_user", line |-> 662],
     [method |-> "POST",   path |-> "/api/tracks",                     dep |-> "require_admin",           line |-> 682],
     [method |-> "POST",   path |-> "/api/auth/change-password",       dep |-> "get_current_active_user", line |-> 753],
     [method |-> "POST",   path |-> "/api/admin/users/{user_id}/reset-password", dep |-> "require_admin", line |-> 797],
     [method |-> "PUT",    path |-> "/api/admin/tracks/{tn}/status",   dep |-> "require_admin",           line |-> 871],
     [method |-> "DELETE", path |-> "/api/admin/tracks/{tn}",          dep |-> "require_admin",           line |-> 896],
     [method |-> "POST",   path |-> "/api/admin/scanner/deliver",      dep |-> "require_admin",           line |-> 952],
     [method |-> "POST",   path |-> "/api/admin/scanner/delete",       dep |-> "require_admin",           line |-> 982],
     [method |-> "GET",    path |-> "/api/admin/tracks-by-date",       dep |-> "require_admin",           line |-> 1015],
     [method |-> "POST",   path |-> "/api/admin/batch-update-status",  dep |-> "require_admin",           line |-> 1049],
     [method |-> "PUT",    path |-> "/api/admin/tracks/{tn}/status",   dep |-> "none",                    line |-> 1087],
     [method |-> "DELETE", path |-> "/api/admin/tracks/{tn}",          dep |-> "none",                    line |-> 1111],
     [method |-> "POST",   path |-> "/api/admin/scanner/deliver",      dep |-> "none",                    line |-> 1163],
     [method |-> "POST",   path |-> "/api/admin/scanner/delete",       dep |-> "none",                    line |-> 1192],
     [method |-> "POST",   path |-> "/api/admin/batch-update-status",  dep |-> "require_admin",           line |-> 1261] >>

Matching(method, path) ==
  {i \in 1..Len(Routes) : Routes[i].method = method /\ Routes[i].path = path}

Dispatch_last_registration(method, path) ==
  Routes[CHOOSE i \in Matching(method, path) : \A j \in Matching(method, path) : j <= i]

\* the registration that serves a request: the first match in source order
Dispatch(method, path) ==
  Routes[CHOOSE i \in Matching(method, path) : \A j \in Matching(method, path) : i <= j]

\* the outcomes of a registration's security dependency for a request
Dependency(dep, cred, store, now) ==
  CASE dep = "require_admin" -> require_admin(cred, store, now)
    [] dep = "get_current_active_user" -> get_current_active_user(cred, store, now)
    [] OTHER -> {Outcome(200, NoUser)}

Guard(method, path, cred, store, now) ==
  Dependency(Dispatch(method, path).dep, cred, store, now)

\* ---------------------------------------------------------------------
\* Track store (models.Track, crud.py)
\* ---------------------------------------------------------------------
\* tracks is a function from the stored track numbers to their rows.
Row(status, departure_date, personal_code, is_archived) ==
  [status |-> status, departure_date |-> departure_date,
   personal_code |-> personal_code, is_archived |-> is_archived]

Put(trk, tn, row) ==
  [n \in DOMAIN trk \cup {tn} |-> IF n = tn THEN row ELSE trk[n]]

Remove(trk, tn) == [n \in DOMAIN trk \ {tn} |-> trk[n]]

create_or_update_track_drop_owner(trk, track_number, status, departure_date) ==
  Put(trk, track_number, Row(status, departure_date, None, FALSE))

\* create_or_update_track(db, track_number, status, departure_date)
create_or_update_track(trk, track_number, status, departure_date) ==
  IF track_number \in DOMAIN trk
    THEN Put(trk, track_number,
             [trk[track_number] EXCEPT !.status = status,
                                       !.departure_date = departure_date,
                                       !.is_archived = FALSE])
    ELSE Put(trk, track_number, Row(status, departure_date, None, FALSE))

assign_track_to_user_new_row(trk, track_number, personal_code) ==
  [raised |-> FALSE,
   tracks |-> Put(trk, track_number, Row(REGISTERED, NoDate, personal_code, FALSE))]

\* assign_track_to_user(db, track_number, personal_code):
\* [raised, tracks], raised = TRUE for the ValueError "already assigned"
assign_track_to_user(trk, track_number, personal_code) ==
  IF track_number \in DOMAIN trk
    THEN IF Truthy(trk[track_number].personal_code)
            /\ trk[track_number].personal_code # personal_code
           THEN [raised |-> TRUE, tracks |-> trk]
           ELSE [raised |-> FALSE,
                 tracks |-> Put(trk, track_number,
                                [trk[track_number] EXCEPT !.personal_code = personal_code])]
    ELSE [raised |-> FALSE,
          tracks |-> Put(trk, track_number, Row(REGISTERED, NoDate, personal_code, FALSE))]

\* archive_track(db, track_number) on a stored track
archive_track(trk, track_number) ==
  Put(trk, track_number, [trk[track_number] EXCEPT !.is_archived = TRUE])

\* ---------------------------------------------------------------------
\* Requests
\* ---------------------------------------------------------------------
FarFuture == ACCESS_TOKEN_EXPIRE_MINUTES * 100

AdminClaims ==
  [sub |-> "admin@deltacargo.com", role |-> "admin", personal_code |-> "ADMIN",
   name |-> "Admin User", exp |-> FarFuture]

\* bearer strings that no login produced
CraftedTokens ==
  { MalformedToken,
    [form |-> "jws", alg |-> ALGORITHM, key |-> "another-secret", payload |-> AdminClaims],
    [form |-> "jws", alg |-> "none", key |-> SECRET_KEY, payload |-> AdminClaims],
    [form |-> "jws", alg |-> ALGORITHM, key |-> SECRET_KEY,
     payload |-> [AdminClaims EXCEPT !.sub = None]] }

\* tokens[email] is the bearer string the client of that account holds: the
\* one its last successful login returned, with the row it was issued for and
\* the issue time (NoIssue: it holds none).
NoIssue == [tok |-> MalformedToken, user |-> NoUser, at |-> 0]
Issued == {tokens[e] : e \in DOMAIN tokens} \ {NoIssue}
IssuedTokens == {t.tok : t \in Issued}
TokenInputs == IssuedTokens \cup CraftedTokens
CredInputs == {NoCred} \cup {Bearer(t) : t \in TokenInputs}

\* the callers of a track request: no credentials, or
\* the token login_user returns at this moment for a stored, active account
Callers ==
  {NoCred}
    \cup {Bearer(create_user_token(u, clock)) : u \in {x \in users : x.is_active}}

\* the subject a request's bearer string decodes to ("<invalid>": no
\* credentials or no claims decoded; None: claims without "sub")
Subject(cred, now) ==
  IF cred.present /\ decode_token(cred.token, now).kind = "payload"
    THEN cred.token.payload.sub
    ELSE "<invalid>"

\* the last response: handler, HTTP status, id of the resolved principal
\* (0: none) and the subject of the request's bearer string
Resp(op, status, by, sub) == [op |-> op, status |-> status, by |-> by, sub |-> sub]

\* Request-handling units that serve requests side by side.
\* pend[p]: where unit p is in its handler (idle, selected: after the SELECT
\* and before db.commit(), done), the request, what it read and the HTTP
\* status it answered. In SpecRace the handler is assign_track_endpoint.
Procs == {1, 2}
IdleReq ==
  [pc |-> "idle", tn |-> None, code |-> None, by |-> 0,
   found |-> FALSE, raced |-> FALSE, status |-> 0]

TypeOK ==
  /\ \A u \in users :
       /\ DOMAIN u = {"id", "email", "personal_code", "whatsapp", "hashed_password",
                      "role", "is_active", "name"}
       /\ u.id \in Nat \ {0}
       /\ u.role \in Roles
       /\ u.is_active \in BOOLEAN
       /\ Len(u.hashed_password) <= Len(hash_password("", 1))
  /\ \A tn \in DOMAIN tracks : tracks[tn].is_archived \in BOOLEAN
  /\ clock \in 0..(MaxTicks * TickMinutes)
  /\ Len(audit) <= MaxAudit + MaxLog
  /\ DOMAIN tokens = Emails

Init ==
  /\ users = SeedUsers
  /\ tracks = << >>
  /\ audit = << >>
  /\ tokens = [e \in Emails |-> NoIssue]
  /\ clock = 0
  /\ resp = Resp("startup", 200, 0, "<invalid>")
  /\ decoded = [token |-> MalformedToken, at |-> 0,
                result |-> [kind |-> "idle", payload |-> NoPayload]]
  /\ pend = [p \in Procs |-> IdleReq]

\* ---------------------------------------------------------------------
\* Authentication handlers (main.py)
\* ---------------------------------------------------------------------
\* POST /api/auth/login: login_user. The token handed out is remembered with
\* the row it was issued for and the issue time.
Login(email, password) ==
  LET auth == authenticate_user(users, email, password)
      found == auth.found
  IN  /\ IF auth.raises
           THEN /\ resp' = Resp("login_user", 500, 0, "<invalid>")
                /\ UNCHANGED tokens
           ELSE IF found = {}
           THEN /\ resp' = Resp("login_user", 401, 0, "<invalid>")
                /\ UNCHANGED tokens
           ELSE \E user \in found :
                  IF ~user.is_active
                    THEN /\ resp' = Resp("login_user", 403, 0, "<invalid>")
                         /\ UNCHANGED tokens
                    ELSE LET t == [tok |-> create_user_token(user, clock),
                                   user |-> user, at |-> clock]
                         IN  /\ tokens' = [tokens EXCEPT ![email] = t]
                             /\ resp' = Resp("login_user", 200, user.id, "<invalid>")
      /\ UNCHANGED <<users, tracks, audit, clock, decoded, pend>>

\* GET /api/auth/me: get_current_user_info
GetMe(cred) ==
  /\ \E o \in Guard("GET", "/api/auth/me", cred, users, clock) :
       resp' = Resp("get_current_user_info", o.status, o.user.id, Subject(cred, clock))
  /\ UNCHANGED <<users, tracks, audit, tokens, clock, decoded, pend>>

\* GET /api/users: get_all_users
GetAllUsers(cred) ==
  /\ \E o \in Guard("GET", "/api/users", cred, users, clock) :
       resp' = Resp("get_all_users", o.status, o.user.id, Subject(cred, clock))
  /\ UNCHANGED <<users, tracks, audit, tokens, clock, decoded, pend>>

create_audit_log_latest(log, action, performed_by, target_entity, target_id, details) ==
  <<[action |-> action, performed_by |-> performed_by,
     target_entity |-> target_entity, target_id |-> target_id,
     details |-> details]>>

\* create_audit_log(db, action, performed_by, target_entity, target_id, details)
create_audit_log(log, action, performed_by, target_entity, target_id, details) ==
  Append(log, [action |-> action, performed_by |-> performed_by,
               target_entity |-> target_entity, target_id |-> target_id,
               details |-> details])

\* delete_user(db, user_id)
delete_user(store, user_id) == {u \in store : u.id # user_id}

delete_user_cascade(store, trk, user_id) ==
  [users |-> delete_user(store, user_id),
   tracks |-> [n \in {m \in DOMAIN trk :
                        \A u \in store : u.id = user_id => trk[m].personal_code # u.personal_code}
                 |-> trk[n]]]

\* the rows of both tables after db.delete(user); db.commit(): Track has no
\* foreign key or relationship to User, so only the users row goes
delete_user_rows(store, trk, user_id) ==
  [users |-> delete_user(store, user_id), tracks |-> trk]

\* DELETE /api/users/{user_id}: delete_user_by_id
DeleteUser(cred, user_id) ==
  /\ \E o \in Guard("DELETE", "/api/users/{user_id}", cred, users, clock) :
       IF o.status # 200
         THEN /\ resp' = Resp("delete_user_by_id", o.status, 0, Subject(cred, clock))
              /\ UNCHANGED <<users, tracks, audit>>
         ELSE IF \E u \in users : u.id = user_id
           THEN /\ Len(audit) < MaxAudit
                /\ users' = delete_user_rows(users, tracks, user_id).users
                /\ tracks' = delete_user_rows(users, tracks, user_id).tracks
                /\ audit' = create_audit_log(audit, "delete_user", o.user.email,
                                             "user", user_id, None)
                /\ resp' = Resp("delete_user_by_id", 200, o.user.id, Subject(cred, clock))
           ELSE /\ resp' = Resp("delete_user_by_id", 404, o.user.id, Subject(cred, clock))
                /\ UNCHANGED <<users, tracks, audit>>
  /\ UNCHANGED <<tokens, clock, decoded, pend>>

\* The users table is also written outside the handlers above (no handler of
\* main.py writes is_active or role): an operator disables or enables an
\* account, or changes its role, directly in the store.
StoreSetActive(user_id, flag) ==
  /\ \E u \in users : u.id = user_id /\ u.is_active # flag
  /\ users' = {IF u.id = user_id THEN [u EXCEPT !.is_active = flag] ELSE u : u \in users}
  /\ resp' = Resp("store_update", 200, 0, "<invalid>")
  /\ UNCHANGED <<tracks, audit, tokens, clock, decoded, pend>>

StoreSetRole(user_id, role) ==
  /\ \E u \in users : u.id = user_id /\ u.role # role
  /\ users' = {IF u.id = user_id THEN [u EXCEPT !.role = role] ELSE u : u \in users}
  /\ resp' = Resp("store_update", 200, 0, "<invalid>")
  /\ UNCHANGED <<tracks, audit, tokens, clock, decoded, pend>>

\* the wall clock (datetime.utcnow()) advances
Tick ==
  /\ clock < MaxTicks * TickMinutes
  /\ clock' = clock + TickMinutes
  /\ UNCHANGED <<users, tracks, audit, tokens, resp, decoded, pend>>

\* decode_token(token) applied to a bearer string
DecodeToken(token) ==
  /\ decoded' = [token |-> token, at |-> clock, result |-> decode_token(token, clock)]
  /\ UNCHANGED <<users, tracks, audit, tokens, clock, resp, pend>>

\* the steps of the token service alone
NextToken ==
  \/ \E email \in Emails, password \in Passwords : Login(email, password)
  \/ \E user_id \in UserIds, flag \in BOOLEAN : StoreSetActive(user_id, flag)
  \/ \E user_id \in UserIds, role \in Roles : StoreSetRole(user_id, role)
  \/ Tick
  \/ \E token \in TokenInputs : DecodeToken(token)

SpecToken == Init /\ [][NextToken]_vars

NextAuth ==
  \/ \E email \in Emails, password \in Passwords : Login(email, password)
  \/ \E cred \in CredInputs : GetMe(cred)
  \/ \E cred \in CredInputs : GetAllUsers(cred)
  \/ \E cred \in CredInputs, user_id \in UserIds : DeleteUser(cred, user_id)
  \/ \E user_id \in UserIds, flag \in BOOLEAN : StoreSetActive(user_id, flag)
  \/ \E user_id \in UserIds, role \in Roles : StoreSetRole(user_id, role)
  \/ Tick

SpecAuth == Init /\ [][NextAuth]_vars

\* ---------------------------------------------------------------------
\* Track handlers (main.py)
\* ---------------------------------------------------------------------
\* POST /api/tracks/assign: assign_track_endpoint
AssignTrack(cred, tn, code) ==
  /\ \E o \in Guard("POST", "/api/tracks/assign", cred, users, clock) :
       IF o.status # 200
         THEN /\ resp' = Resp("assign_track_endpoint", o.status, 0, Subject(cred, clock))
              /\ UNCHANGED tracks
         ELSE IF o.user.role # "admin" /\ o.user.personal_code # code
           THEN /\ resp' = Resp("assign_track_endpoint", 403, o.user.id, Subject(cred, clock))
                /\ UNCHANGED tracks
           ELSE LET r == assign_track_to_user(tracks, tn, code)
                IN  /\ tracks' = r.tracks
                    /\ resp' = Resp("assign_track_endpoint",
                                    IF r.raised THEN 409 ELSE 200, o.user.id, Subject(cred, clock))
  /\ UNCHANGED <<users, audit, tokens, clock, decoded, pend>>

archive_track_endpoint_any_owner(current_user, trk, track_number) ==
  IF track_number \notin DOMAIN trk
    THEN [status |-> 404, tracks |-> trk]
    ELSE [status |-> 200, tracks |-> archive_track(trk, track_number)]

\* archive_track_endpoint for the resolved principal: [status, tracks]
archive_track_endpoint(current_user, trk, track_number) ==
  IF track_number \notin DOMAIN trk
    THEN [status |-> 404, tracks |-> trk]
    ELSE IF /\ current_user.role # "admin"
            /\ trk[track_number].personal_code # current_user.personal_code
      THEN [status |-> 403, tracks |-> trk]
      ELSE [status |-> 200, tracks |-> archive_track(trk, track_number)]

\* POST /api/tracks/archive/{track_number}: archive_track_endpoint
ArchiveTrack(cred, tn) ==
  /\ \E o \in Guard("POST", "/api/tracks/archive/{tn}", cred, users, clock) :
       IF o.status # 200
         THEN /\ resp' = Resp("archive_track_endpoint", o.status, 0, Subject(cred, clock))
              /\ UNCHANGED tracks
         ELSE LET r == archive_track_endpoint(o.user, tracks, tn)
              IN  /\ tracks' = r.tracks
                  /\ resp' = Resp("archive_track_endpoint", r.status, o.user.id,
                                  Subject(cred, clock))
  /\ UNCHANGED <<users, audit, tokens, clock, decoded, pend>>

\* the rows of an uploaded file that upload_tracks processes
ValidRows(rows) == SelectSeq(rows, LAMBDA r : r # "" /\ r # "nan")

\* a track number of 256 characters, one more than Track.track_number holds
\* (String(255))
Overlong == "KZ<256 characters>"

\* the store keeps the declared length of VARCHAR(255): PostgreSQL (the
\* production store of db.py) rejects a longer value, SQLite (the
\* development store) stores it
StoreLimits == BOOLEAN

fits_column(track_number, enforce) == ~(enforce /\ track_number = Overlong)

\* the locals of upload_tracks before its loop; inactive: the session's
\* transaction was rolled back by a failed flush and session.rollback() was
\* not called, so every further use of the session raises
UploadStart(trk) == [tracks |-> trk, count |-> 0, errors |-> 0, inactive |-> FALSE]

RECURSIVE UpsertAll(_, _, _, _, _)
\* the loop of upload_tracks: create_or_update_track on each row in order
\* inside try/except Exception; create_or_update_track commits each row and
\* has no rollback
UpsertAll(st, rows, status, departure_date, enforce) ==
  IF rows = << >> THEN st
  ELSE LET row == Head(rows)
           next ==
             IF st.inactive
               THEN [st EXCEPT !.errors = @ + 1]
               ELSE IF ~fits_column(row, enforce)
                 THEN [st EXCEPT !.errors = @ + 1, !.inactive = TRUE]
                 ELSE [st EXCEPT !.tracks = create_or_update_track(st.tracks, row, status,
                                                                  departure_date),
                                 !.count = @ + 1]
       IN  UpsertAll(next, Tail(rows), status, departure_date, enforce)

\* POST /api/tracks: upload_tracks
UploadTracks(cred, rows, departure_date, status) ==
  /\ \E o \in Guard("POST", "/api/tracks", cred, users, clock) :
       IF o.status # 200
         THEN /\ resp' = Resp("upload_tracks", o.status, 0, Subject(cred, clock))
              /\ UNCHANGED <<tracks, audit>>
         ELSE IF strptime(departure_date) = << >>
           THEN /\ resp' = Resp("upload_tracks", 400, o.user.id, Subject(cred, clock))
                /\ UNCHANGED <<tracks, audit>>
           ELSE \E enforce \in StoreLimits :
                  LET r == UpsertAll(UploadStart(tracks), ValidRows(rows), status,
                                     strptime(departure_date), enforce)
                      sent == [rows |-> rows, new_status |-> status,
                               departure_date |-> strptime(departure_date)]
                  IN  IF r.inactive
                        \* session.commit() after the loop raises on the
                        \* inactive session; the error is no ValueError
                        THEN /\ tracks' = r.tracks
                             /\ resp' = Resp("upload_tracks", 500, o.user.id,
                                             Subject(cred, clock)) @@ sent
                             /\ UNCHANGED audit
                        ELSE /\ Len(audit) < MaxAudit
                             /\ tracks' = r.tracks
                             /\ audit' = create_audit_log(audit, "bulk_upload_tracks",
                                                          o.user.email, "track", "bulk",
                                                          <<r.count, status>>)
                             /\ resp' = Resp("upload_tracks", 200, o.user.id,
                                             Subject(cred, clock)) @@ sent
                                          @@ [count |-> r.count, total_errors |-> r.errors]
  /\ UNCHANGED <<users, tokens, clock, decoded, pend>>

\* PUT /api/admin/tracks/{track_number}/status: update_track_status
UpdateTrackStatus(cred, tn, new_status) ==
  /\ \E o \in Guard("PUT", "/api/admin/tracks/{tn}/status", cred, users, clock) :
       IF o.status # 200
         THEN /\ resp' = Resp("update_track_status", o.status, 0, Subject(cred, clock))
              /\ UNCHANGED tracks
         ELSE IF tn \notin DOMAIN tracks
           THEN /\ resp' = Resp("update_track_status", 404, o.user.id, Subject(cred, clock))
                /\ UNCHANGED tracks
           ELSE /\ tracks' = Put(tracks, tn, [tracks[tn] EXCEPT !.status = new_status])
                /\ resp' = Resp("update_track_status", 200, o.user.id, Subject(cred, clock))
  /\ UNCHANGED <<users, audit, tokens, clock, decoded, pend>>

\* DELETE /api/admin/tracks/{track_number}: delete_track_permanently
DeleteTrack(cred, tn) ==
  /\ \E o \in Guard("DELETE", "/api/admin/tracks/{tn}", cred, users, clock) :
       IF o.status # 200
         THEN /\ resp' = Resp("delete_track_permanently", o.status, 0, Subject(cred, clock))
              /\ UNCHANGED tracks
         ELSE IF tn \notin DOMAIN tracks
           THEN /\ resp' = Resp("delete_track_permanently", 404, o.user.id, Subject(cred, clock))
                /\ UNCHANGED tracks
           ELSE /\ tracks' = Remove(tracks, tn)
                /\ resp' = Resp("delete_track_permanently", 200, o.user.id, Subject(cred, clock))
  /\ UNCHANGED <<users, audit, tokens, clock, decoded, pend>>

\* track_list = [t.strip().upper() for t in track_numbers.split(',') if t.strip()]
RECURSIVE track_list(_)
track_list(raw) ==
  IF raw = << >> THEN << >>
  ELSE IF Head(raw) = "" THEN track_list(Tail(raw))
  ELSE <<upper(Head(raw))>> \o track_list(Tail(raw))

\* the scanned numbers that are stored tracks
Scanned(trk, raw) ==
  {track_list(raw)[i] : i \in 1..Len(track_list(raw))} \cap DOMAIN trk

\* POST /api/admin/scanner/deliver: deliver_scanned_parcels
DeliverScanned(cred, raw) ==
  /\ \E o \in Guard("POST", "/api/admin/scanner/deliver", cred, users, clock) :
       IF o.status # 200
         THEN /\ resp' = Resp("deliver_scanned_parcels", o.status, 0, Subject(cred, clock))
              /\ UNCHANGED tracks
         ELSE /\ tracks' = [n \in DOMAIN tracks |->
                              IF n \in Scanned(tracks, raw)
                                THEN [tracks[n] EXCEPT !.status = DELIVERED]
                                ELSE tracks[n]]
              /\ resp' = Resp("deliver_scanned_parcels", 200, o.user.id, Subject(cred, clock))
  /\ UNCHANGED <<users, audit, tokens, clock, decoded, pend>>

\* POST /api/admin/scanner/delete: delete_scanned_parcels
DeleteScanned(cred, raw) ==
  /\ \E o \in Guard("POST", "/api/admin/scanner/delete", cred, users, clock) :
       IF o.status # 200
         THEN /\ resp' = Resp("delete_scanned_parcels", o.status, 0, Subject(cred, clock))
              /\ UNCHANGED tracks
         ELSE /\ tracks' = [n \in DOMAIN tracks \ Scanned(tracks, raw) |-> tracks[n]]
              /\ resp' = Resp("delete_scanned_parcels", 200, o.user.id, Subject(cred, clock))
  /\ UNCHANGED <<users, audit, tokens, clock, decoded, pend>>

\* POST /api/admin/batch-update-status: batch_update_status_by_date
BatchUpdate(cred, departure_date, new_status) ==
  /\ \E o \in Guard("POST", "/api/admin/batch-update-status", cred, users, clock) :
       IF o.status # 200
         THEN /\ resp' = Resp("batch_update_status_by_date", o.status, 0, Subject(cred, clock))
              /\ UNCHANGED tracks
         ELSE IF strptime(departure_date) = << >>
           THEN /\ resp' = Resp("batch_update_status_by_date", 400, o.user.id, Subject(cred, clock))
                /\ UNCHANGED tracks
           ELSE IF \A n \in DOMAIN tracks :
                     tracks[n].departure_date # strptime(departure_date)
             THEN /\ resp' = Resp("batch_update_status_by_date", 404, o.user.id, Subject(cred, clock))
                  /\ UNCHANGED tracks
             ELSE /\ tracks' = [n \in DOMAIN tracks |->
                                  IF tracks[n].departure_date = strptime(departure_date)
                                    THEN [tracks[n] EXCEPT !.status = new_status]
                                    ELSE tracks[n]]
                  /\ resp' = Resp("batch_update_status_by_date", 200, o.user.id, Subject(cred, clock))
  /\ UNCHANGED <<users, audit, tokens, clock, decoded, pend>>

\* request bodies of the model
UploadFiles == { <<"kz1", "", "KZ1">> }
ScanLists == { <<"kz1">>, <<"KZ1", "">> }

Next ==
  \/ \E cred \in Callers, tn \in TrackNumbers, code \in Codes : AssignTrack(cred, tn, code)
  \/ \E cred \in Callers, tn \in TrackNumbers : ArchiveTrack(cred, tn)
  \/ \E cred \in Callers, rows \in UploadFiles, d \in DateInputs, st \in StatusInputs :
       UploadTracks(cred, rows, d, st)
  \/ \E cred \in Callers, tn \in TrackNumbers, st \in StatusInputs :
       UpdateTrackStatus(cred, tn, st)
  \/ \E cred \in Callers, raw \in ScanLists : DeliverScanned(cred, raw)
  \/ \E cred \in Callers, d \in DateInputs, st \in StatusInputs : BatchUpdate(cred, d, st)

\* the track lifecycle without permanent deletion
Spec == Init /\ [][Next]_vars

NextDelete ==
  \/ \E email \in Emails, password \in Passwords : Login(email, password)
  \/ \E user_id \in UserIds, flag \in BOOLEAN : StoreSetActive(user_id, flag)
  \/ \E user_id \in UserIds, role \in Roles : StoreSetRole(user_id, role)
  \/ \E cred \in CredInputs, tn \in TrackNumbers, code \in Codes : AssignTrack(cred, tn, code)
  \/ \E cred \in CredInputs, tn \in TrackNumbers : DeleteTrack(cred, tn)
  \/ \E cred \in CredInputs, raw \in ScanLists : DeleteScanned(cred, raw)

\* permanent deletion under changing accounts
SpecDelete == Init /\ [][NextDelete]_vars

\* ---------------------------------------------------------------------
\* Concurrent claims: assign_track_endpoint split at its storage round-trips
\* ---------------------------------------------------------------------
\* Dependencies, the ownership check of the endpoint and the SELECT of
\* assign_track_to_user, with the "already assigned" ValueError it may raise.
ClaimSelect(p, cred, tn, code) ==
  /\ pend[p].pc = "idle"
  /\ \E o \in Guard("POST", "/api/tracks/assign", cred, users, clock) :
       LET req == [IdleReq EXCEPT !.tn = tn, !.code = code, !.by = o.user.id]
           inflight == {q \in Procs \ {p} : pend[q].pc = "selected" /\ pend[q].tn = tn}
       IN  IF o.status # 200
             THEN pend' = [pend EXCEPT ![p] = [req EXCEPT !.pc = "done", !.status = o.status]]
             ELSE IF o.user.role # "admin" /\ o.user.personal_code # code
               THEN pend' = [pend EXCEPT ![p] = [req EXCEPT !.pc = "done", !.status = 403]]
               ELSE IF assign_track_to_user(tracks, tn, code).raised
                 THEN pend' = [pend EXCEPT ![p] = [req EXCEPT !.pc = "done", !.status = 409]]
                 ELSE pend' = [q \in Procs |->
                                 IF q = p
                                   THEN [req EXCEPT !.pc = "selected",
                                                    !.found = (tn \in DOMAIN tracks),
                                                    !.raced = (inflight # {})]
                                   ELSE IF q \in inflight
                                     THEN [pend[q] EXCEPT !.raced = TRUE]
                                     ELSE pend[q]]
  /\ UNCHANGED <<users, tracks, audit, tokens, clock, resp, decoded>>

\* db.commit(): the UPDATE of the row read, or the INSERT of a new row. The
\* INSERT of a track number stored meanwhile violates the unique index of
\* track_number: IntegrityError, which "except ValueError" does not catch.
ClaimCommit(p) ==
  /\ pend[p].pc = "selected"
  /\ IF pend[p].found
       THEN IF pend[p].tn \in DOMAIN tracks
              THEN /\ tracks' = Put(tracks, pend[p].tn,
                                    [tracks[pend[p].tn] EXCEPT !.personal_code = pend[p].code])
                   /\ pend' = [pend EXCEPT ![p].pc = "done", ![p].status = 200]
              ELSE /\ pend' = [pend EXCEPT ![p].pc = "done", ![p].status = 500]
                   /\ UNCHANGED tracks
       ELSE IF pend[p].tn \in DOMAIN tracks
              THEN /\ pend' = [pend EXCEPT ![p].pc = "done", ![p].status = 500]
                   /\ UNCHANGED tracks
              ELSE /\ tracks' = Put(tracks, pend[p].tn,
                                    Row(REGISTERED, NoDate, pend[p].code, FALSE))
                   /\ pend' = [pend EXCEPT ![p].pc = "done", ![p].status = 200]
  /\ UNCHANGED <<users, audit, tokens, clock, resp, decoded>>

NextRace ==
  \/ \E p \in Procs, cred \in Callers, tn \in TrackNumbers, code \in Codes :
       ClaimSelect(p, cred, tn, code)
  \/ \E p \in Procs : ClaimCommit(p)
  \/ \E cred \in Callers, rows \in UploadFiles, d \in DateInputs, st \in StatusInputs :
       UploadTracks(cred, rows, d, st)

\* two request-handling units claiming side by side
SpecRace == Init /\ [][NextRace]_vars

\* =====================================================================
\* Claims
\* =====================================================================
\* the request passes the dependency and the ownership check of
\* assign_track_endpoint, so that assign_track_to_user runs
ClaimReachesStore(cred, code) ==
  \E o \in Guard("POST", "/api/tracks/assign", cred, users, clock) :
    o.status = 200 /\ (o.user.role = "admin" \/ o.user.personal_code = code)

\* C1: a claim of a track whose owner is a non-null code c1 by another code
\* c2 answers 409 Conflict and changes no field of any track.
C1_ForeignClaimConflicts ==
  [][\A cred \in Callers, tn \in TrackNumbers, code \in Codes :
       ( /\ AssignTrack(cred, tn, code)
         /\ ClaimReachesStore(cred, code)
         /\ tn \in DOMAIN tracks
         /\ tracks[tn].personal_code # None
         /\ tracks[tn].personal_code # code )
       => (resp'.status = 409 /\ tracks' = tracks)]_vars

\* C1, the part the code keeps: assign_track_to_user refuses, and writes
\* nothing, for every stored owner that is a non-empty string other than the
\* claiming code.
C1_TruthyOwnerConflicts ==
  \A tn \in DOMAIN tracks, code \in Codes :
    (Truthy(tracks[tn].personal_code) /\ tracks[tn].personal_code # code)
      => assign_track_to_user(tracks, tn, code) = [raised |-> TRUE, tracks |-> tracks]

\* C2: once the owner of a stored track is a non-null code it is that code
\* in every later state (the specification has no delete).
C2_OwnerNeverChanges ==
  [][\A tn \in DOMAIN tracks :
       tracks[tn].personal_code # None
       => (tn \in DOMAIN tracks' /\ tracks'[tn].personal_code = tracks[tn].personal_code)]_vars

\* C2, the part the code keeps: an owner that is a non-empty string stays.
C2_TruthyOwnerNeverChanges ==
  [][\A tn \in DOMAIN tracks :
       Truthy(tracks[tn].personal_code)
       => (tn \in DOMAIN tracks' /\ tracks'[tn].personal_code = tracks[tn].personal_code)]_vars

\* two units that passed the checks of the endpoint for the same track
\* number and different codes while both were in flight, and have answered
RacedPair(p, q) ==
  /\ p # q
  /\ pend[p].pc = "done" /\ pend[q].pc = "done"
  /\ pend[p].raced /\ pend[q].raced
  /\ pend[p].tn = pend[q].tn
  /\ pend[p].code # pend[q].code

\* C3: of two concurrent claims of one track number with different codes
\* exactly one answers 200 and the other answers 409 Conflict.
C3_RaceLoserGetsConflict ==
  \A p, q \in Procs :
    RacedPair(p, q) =>
      \/ (pend[p].status = 200 /\ pend[q].status = 409)
      \/ (pend[p].status = 409 /\ pend[q].status = 200)

\* C3, first half alone: exactly one of the two answers 200.
C3_RaceExactlyOneSucceeds ==
  \A p, q \in Procs :
    RacedPair(p, q) => (pend[p].status = 200) # (pend[q].status = 200)

\* C3, second half alone: no concurrent claim answers with a raw storage
\* error (500).
C3_RaceNoStorageError ==
  \A p \in Procs : pend[p].pc = "done" => pend[p].status # 500

DeleteOps == {"delete_track_permanently", "delete_scanned_parcels"}

\* C4: a step that removes a track row from the store is a delete request
\* answered 200 whose resolved principal is a stored, active admin.
C4_DeleteOnlyByAdmin ==
  [][(\E tn \in DOMAIN tracks : tn \notin DOMAIN tracks')
       => ( /\ resp'.op \in DeleteOps
            /\ resp'.status = 200
            /\ \E u \in users : u.id = resp'.by /\ u.role = "admin" /\ u.is_active )]_vars

\* C4 witness: the single delete removed the last stored track, and the
\* principal it acted for is the only stored admin
C4_Witness ==
  /\ resp.op = "delete_track_permanently"
  /\ resp.status = 200
  /\ tracks = << >>
  /\ \A u \in users : u.role = "admin" <=> u.id = resp.by

\* the account handlers that resolve a principal from the bearer string
AuthOps == {"get_current_user_info", "get_all_users"}

\* the bearer string is correctly signed and not expired
ValidToken(cred) ==
  /\ cred.present
  /\ cred.token.form = "jws"
  /\ cred.token.alg = ALGORITHM
  /\ cred.token.key = SECRET_KEY
  /\ cred.token.payload.exp >= clock

\* C5: a request of a stored principal whose is_active is false, made with a
\* correctly signed, non-expired token, is rejected and the rejection is a
\* 401 (Unauthenticated) or a 403 (Forbidden).
C5_InactiveRejectedAs401Or403 ==
  (/\ resp.op \in AuthOps
   /\ \E u \in users : u.email = resp.sub /\ ~u.is_active)
    => (resp.by = 0 /\ resp.status \in {401, 403})

\* C5, the part the code keeps: such a request is rejected, with status 400,
\* by the is_active of the stored row, whatever the token says.
C5_InactiveRejected ==
  /\ (/\ resp.op \in AuthOps
      /\ \E u \in users : u.email = resp.sub /\ ~u.is_active)
       => (resp.by = 0 /\ resp.status = 400)
  /\ \A cred \in CredInputs :
       (ValidToken(cred) /\ \E u \in users : u.email = cred.token.payload.sub /\ ~u.is_active)
         => get_current_user(cred, users, clock) = {Outcome(400, NoUser)}

\* C6: a correctly signed, non-expired token whose subject matches no stored
\* principal, or that carries no subject, is rejected with 401, by
\* get_current_user and by the handlers that depend on it.
C6_UnknownSubjectRejected ==
  /\ \A cred \in CredInputs :
       ( /\ ValidToken(cred)
         /\ \/ cred.token.payload.sub = None
            \/ UsersByEmail(users, cred.token.payload.sub) = {} )
       => get_current_user(cred, users, clock) = {Outcome(401, NoUser)}
  /\ ( /\ resp.op \in AuthOps
       /\ resp.sub # "<invalid>"
       /\ (resp.sub = None \/ UsersByEmail(users, resp.sub) = {}) )
     => (resp.by = 0 /\ resp.status = 401)

\* C6 witness: the token of a deleted account, still within its lifetime, was
\* answered 401
C6_Witness ==
  /\ resp.op = "get_current_user_info"
  /\ resp.status = 401
  /\ resp.sub \in Emails
  /\ UsersByEmail(users, resp.sub) = {}

\* C7: the outcome of a role check is decided by the stored role of the
\* principal the subject resolves to and by the allowed set alone: it is the
\* same for every role the token could embed, and a request to an admin
\* route is served exactly when the stored role is admin at that moment.
C7_RoleDecisionFromStore ==
  /\ \A cred \in CredInputs, allowed \in SUBSET Roles :
       \A u \in users :
         (ValidToken(cred) /\ u.email = cred.token.payload.sub /\ u.is_active)
           => \A r \in Roles :
                RoleChecker(allowed,
                            Bearer([cred.token EXCEPT !.payload.role = r]), users, clock)
                  = {IF u.role \in allowed THEN Outcome(200, u) ELSE Outcome(403, NoUser)}
  /\ \A u \in users :
       (resp.op = "get_all_users" /\ resp.sub = u.email /\ u.is_active)
         => /\ resp.status = (IF u.role = "admin" THEN 200 ELSE 403)
            /\ resp.by = (IF u.role = "admin" THEN u.id ELSE 0)

\* C7 witness: the account holds a token that embeds the role admin, its
\* stored role is client by now, and its request to an admin route was
\* answered 403
C7_Witness ==
  /\ resp.op = "get_all_users"
  /\ resp.status = 403
  /\ resp.sub = "admin@deltacargo.com"
  /\ tokens[resp.sub].tok.payload.role = "admin"
  /\ \E u \in users : u.email = resp.sub /\ u.role = "client" /\ u.is_active

\* C8: a request that fails authentication (no credentials, a bearer string
\* that does not decode, no subject, a subject that is no stored principal)
\* is answered 401, and 403 is answered only to a request that authenticated.
C8_UnauthenticatedIs401 ==
  /\ ( /\ resp.op \in AuthOps
       /\ (resp.sub \in {"<invalid>", None} \/ UsersByEmail(users, resp.sub) = {}) )
     => resp.status = 401
  /\ (resp.op \in AuthOps /\ resp.status = 403)
     => \E u \in users : u.email = resp.sub /\ u.is_active

\* C8, the part the code keeps: the same for every request that carries a
\* bearer string.
C8_BadBearerIs401 ==
  \A cred \in CredInputs :
    ( /\ cred.present
      /\ \/ ~ValidToken(cred)
         \/ cred.token.payload.sub = None
         \/ UsersByEmail(users, cred.token.payload.sub) = {} )
    => /\ get_current_user(cred, users, clock) = {Outcome(401, NoUser)}
       /\ require_admin(cred, users, clock) = {Outcome(401, NoUser)}

\* the claims create_user_token embeds for a row
ClaimsOf(user) ==
  [sub |-> user.email, role |-> user.role,
   personal_code |-> user.personal_code, name |-> user.name]

\* the claims of a decoded payload, without the expiry
ClaimsIn(payload) ==
  [sub |-> payload.sub, role |-> payload.role,
   personal_code |-> payload.personal_code, name |-> payload.name]

\* later readings of the clock
Later == {n \in clock..(MaxTicks * TickMinutes) : (n - clock) % TickMinutes = 0}

\* C9: for a token issued for a row at time t.at, decode before
\* t.at + ACCESS_TOKEN_EXPIRE_MINUTES returns the claims of the row as it was
\* at issue, decode after it returns None, the stored rows have no part in
\* it, and a token that decodes to None now decodes to None at every later
\* time.
C9_DecodeWithinTTL ==
  /\ \A t \in Issued :
       decoded.token = t.tok =>
         /\ decoded.at < t.at + ACCESS_TOKEN_EXPIRE_MINUTES
              => /\ decoded.result.kind = "payload"
                 /\ ClaimsIn(decoded.result.payload) = ClaimsOf(t.user)
         /\ decoded.at > t.at + ACCESS_TOKEN_EXPIRE_MINUTES
              => decoded.result = [kind |-> "None", payload |-> NoPayload]
  /\ \A t \in Issued :
       /\ clock < t.at + ACCESS_TOKEN_EXPIRE_MINUTES
            => /\ decode_token(t.tok, clock).kind = "payload"
               /\ ClaimsIn(decode_token(t.tok, clock).payload) = ClaimsOf(t.user)
       /\ clock > t.at + ACCESS_TOKEN_EXPIRE_MINUTES
            => decode_token(t.tok, clock).kind = "None"
       /\ decode_token(t.tok, clock).kind = "None"
            => \A n \in Later : decode_token(t.tok, n).kind = "None"

\* C9 witness: a token was issued, the row it was issued for is no longer
\* stored as it was, and the token was decoded after its lifetime
C9_Witness ==
  \E t \in Issued :
    /\ decoded.token = t.tok
    /\ decoded.at > t.at + ACCESS_TOKEN_EXPIRE_MINUTES
    /\ decoded.result.kind = "None"
    /\ t.user \notin users

\* C10: decode_token lets no exception out: a bearer string that is
\* malformed, signed with another key, expired, or of another algorithm
\* decodes to None.
C10_DecodeNeverRaises ==
  /\ decoded.result.kind # "raise"
  /\ ( \/ decoded.token.form # "jws"
       \/ decoded.token.key # SECRET_KEY
       \/ decoded.token.alg # ALGORITHM
       \/ (decoded.result.kind # "idle" /\ decoded.token.payload.exp < decoded.at) )
     => decoded.result \in {[kind |-> "None", payload |-> NoPayload],
                            [kind |-> "idle", payload |-> NoPayload]}
  /\ \A token \in TokenInputs : decode_token(token, clock).kind \in {"payload", "None"}

\* C10 witness: a bearer string of another algorithm, with claims that have
\* not expired, was decoded to None
C10_Witness ==
  /\ decoded.token.form = "jws"
  /\ decoded.token.alg # ALGORITHM
  /\ decoded.token.payload.exp >= decoded.at
  /\ decoded.result = [kind |-> "None", payload |-> NoPayload]

\* the dates a departure_date form field can parse to
Dates == {strptime(d) : d \in DateInputs} \ {NoDate}

\* C11: create_or_update_track on a stored track writes the given status and
\* date, clears is_archived and keeps the owner and every other track; on an
\* absent number it stores a row with the given status and date, no owner and
\* is_archived false. An upload answered 200 leaves no owner changed and
\* every row of the file stored, not archived, with the uploaded status.
C11_UpsertState ==
  \A tn \in TrackNumbers, st \in StatusInputs, d \in Dates :
    LET after == create_or_update_track(tracks, tn, st, d)
    IN  /\ DOMAIN after = DOMAIN tracks \cup {tn}
        /\ \A n \in DOMAIN tracks \ {tn} : after[n] = tracks[n]
        /\ after[tn] = Row(st, d,
                           IF tn \in DOMAIN tracks THEN tracks[tn].personal_code ELSE None,
                           FALSE)

C11_UpsertStep ==
  (resp'.op = "upload_tracks" /\ resp'.status = 200)
    => /\ \A n \in DOMAIN tracks :
            n \in DOMAIN tracks' /\ tracks'[n].personal_code = tracks[n].personal_code
       /\ \A n \in DOMAIN tracks' \ DOMAIN tracks : tracks'[n].personal_code = None
       /\ \E d \in Dates :
            \A n \in {"kz1", "KZ1"} :
              /\ n \in DOMAIN tracks'
              /\ tracks'[n].status = audit'[Len(audit')].details[2]
              /\ tracks'[n].departure_date = d
              /\ ~tracks'[n].is_archived

C11_UpsertKeepsOwnerClearsArchive == []C11_UpsertState /\ [][C11_UpsertStep]_vars

\* C11 witness: after an upload answered 200 one uploaded number is a track
\* owned by client 106 and the other a track without owner, both unarchived
C11_Witness ==
  /\ resp.op = "upload_tracks"
  /\ resp.status = 200
  /\ "KZ1" \in DOMAIN tracks /\ "kz1" \in DOMAIN tracks
  /\ tracks["KZ1"].personal_code = "106" /\ ~tracks["KZ1"].is_archived
  /\ tracks["kz1"].personal_code = None /\ ~tracks["kz1"].is_archived
  /\ tracks["KZ1"].status = DELIVERED

\* C12: for a resolved principal, archive of an absent number answers 404;
\* of a stored track, a client gets 200 and the flag set exactly when the
\* track's owner is the client's personal code and 403 with the store
\* unchanged otherwise (unowned tracks too); an admin gets 200 and the flag
\* set for every stored track. A refused request changes no track.
C12_ArchiveState ==
  \A u \in users, tn \in TrackNumbers :
    LET r == archive_track_endpoint(u, tracks, tn)
        archived == [n \in DOMAIN tracks |->
                       IF n = tn THEN [tracks[n] EXCEPT !.is_archived = TRUE]
                       ELSE tracks[n]]
    IN  IF tn \notin DOMAIN tracks
          THEN r = [status |-> 404, tracks |-> tracks]
          ELSE IF u.role = "admin" \/ tracks[tn].personal_code = u.personal_code
            THEN r = [status |-> 200, tracks |-> archived]
            ELSE r = [status |-> 403, tracks |-> tracks]

C12_ArchiveStep ==
  resp'.op = "archive_track_endpoint"
    => IF resp'.by = 0
         THEN tracks' = tracks /\ resp'.status \notin {200, 404}
         ELSE \E u \in users, tn \in TrackNumbers :
                /\ u.id = resp'.by
                /\ archive_track_endpoint(u, tracks, tn)
                     = [status |-> resp'.status, tracks |-> tracks']

C12_ArchiveOwnerOrAdmin == []C12_ArchiveState /\ [][C12_ArchiveStep]_vars

\* C12 witness: the client's archive request was answered 403 while tracks
\* are stored and none of them has an owner or is archived
C12_Witness ==
  /\ resp.op = "archive_track_endpoint"
  /\ resp.status = 403
  /\ resp.by = 2
  /\ DOMAIN tracks # {}
  /\ \A n \in DOMAIN tracks : tracks[n].personal_code = None /\ ~tracks[n].is_archived

\* ---------------------------------------------------------------------
\* Batch status update next to other requests (main.py)
\* ---------------------------------------------------------------------
\* track numbers and stores of the batch runs: every store three uploads
\* with different departure dates (or claims, for the rows without date)
\* leave behind
BatchNumbers == {"KZ1", "KZ2", "KZ3"}
BatchDateInputs == {"2024-01-01", "2024-01-10", "10.01.2024"}
BatchDates == {strptime(d) : d \in BatchDateInputs} \ {NoDate}
BatchStores ==
  { [n \in BatchNumbers |-> Row(REGISTERED, f[n], None, FALSE)] :
      f \in [BatchNumbers -> BatchDates \cup {NoDate}] }

InitBatch ==
  /\ users = SeedUsers
  /\ tracks \in BatchStores
  /\ audit = << >>
  /\ tokens = [e \in Emails |-> NoIssue]
  /\ clock = 0
  /\ resp = Resp("startup", 200, 0, "<invalid>")
  /\ decoded = [token |-> MalformedToken, at |-> 0,
                result |-> [kind |-> "idle", payload |-> NoPayload]]
  /\ pend = [p \in Procs |-> IdleReq]

Done(op, status) == [pc |-> "done", op |-> op, status |-> status]

\* the rows session.query(Track).filter(Track.departure_date == dep_date).all()
\* returns
rows_by_date(trk, dep_date) == {n \in DOMAIN trk : trk[n].departure_date = dep_date}

batch_flush_one_row(trk, rows, new_status) ==
  IF rows \cap DOMAIN trk = {} THEN trk
  ELSE LET one == CHOOSE n \in rows \cap DOMAIN trk : TRUE
       IN  [n \in DOMAIN trk |->
              IF n = one THEN [trk[n] EXCEPT !.status = new_status] ELSE trk[n]]

\* session.commit() of batch_update_status_by_date: the UPDATEs of all rows
\* the loop touched, flushed and committed as one transaction
batch_flush(trk, rows, new_status) ==
  [n \in DOMAIN trk |->
     IF n \in rows THEN [trk[n] EXCEPT !.status = new_status] ELSE trk[n]]

\* batch_update_status_by_date up to the loop: dependency, strptime, SELECT
BatchSelect(p, cred, departure_date, new_status) ==
  /\ pend[p].pc \in {"idle", "done"}
  /\ \E o \in Guard("POST", "/api/admin/batch-update-status", cred, users, clock) :
       LET op == "batch_update_status_by_date"
       IN  IF o.status # 200
             THEN pend' = [pend EXCEPT ![p] = Done(op, o.status)]
             ELSE IF strptime(departure_date) = << >>
               THEN pend' = [pend EXCEPT ![p] = Done(op, 400)]
               ELSE IF rows_by_date(tracks, strptime(departure_date)) = {}
                 THEN pend' = [pend EXCEPT ![p] = Done(op, 404)]
                 ELSE pend' = [pend EXCEPT ![p] =
                                 [pc |-> "selected", op |-> op, status |-> 0,
                                  date |-> strptime(departure_date),
                                  rows |-> rows_by_date(tracks, strptime(departure_date)),
                                  new_status |-> new_status]]
  /\ UNCHANGED <<users, tracks, audit, tokens, clock, resp, decoded>>

\* session.commit() of batch_update_status_by_date and the response
BatchCommit(p) ==
  /\ pend[p].pc = "selected"
  /\ tracks' = batch_flush(tracks, pend[p].rows, pend[p].new_status)
  /\ pend' = [pend EXCEPT ![p] = [pend[p] EXCEPT !.pc = "done", !.status = 200]]
  /\ UNCHANGED <<users, audit, tokens, clock, resp, decoded>>

\* GET /api/admin/tracks-by-date: get_tracks_by_departure_date, the reader:
\* one SELECT of every track with a departure date
ReadByDate(p, cred) ==
  /\ pend[p].pc \in {"idle", "done"}
  /\ \E o \in Guard("GET", "/api/admin/tracks-by-date", cred, users, clock) :
       LET op == "get_tracks_by_departure_date"
       IN  IF o.status # 200
             THEN pend' = [pend EXCEPT ![p] = Done(op, o.status)]
             ELSE pend' = [pend EXCEPT ![p] =
                             [pc |-> "done", op |-> op, status |-> 200,
                              seen |-> [n \in {m \in DOMAIN tracks :
                                                 tracks[m].departure_date # NoDate} |->
                                          [departure_date |-> tracks[n].departure_date,
                                           status |-> tracks[n].status]]]]
  /\ UNCHANGED <<users, tracks, audit, tokens, clock, resp, decoded>>

NextBatch ==
  \/ \E p \in Procs, cred \in Callers, d \in BatchDateInputs, st \in StatusInputs :
       BatchSelect(p, cred, d, st)
  \/ \E p \in Procs : BatchCommit(p)
  \/ \E p \in Procs, cred \in Callers : ReadByDate(p, cred)

\* batch updates and readers side by side
SpecBatch == InitBatch /\ [][NextBatch]_vars

\* C13: the commit of a batch update for date d and status s gives s to
\* every track whose departure date is d and changes nothing else, in one
\* step of the store; no other step of the batch writes. So at every moment
\* the tracks of one date carry the same status, in the store and in what a
\* reader's SELECT returned: none or all of them carry an update.
C13_BatchState ==
  /\ \A p \in Procs :
       pend[p].pc = "selected" => pend[p].rows = rows_by_date(tracks, pend[p].date)
  /\ \A n, m \in DOMAIN tracks :
       (tracks[n].departure_date # NoDate
          /\ tracks[n].departure_date = tracks[m].departure_date)
         => tracks[n].status = tracks[m].status
  /\ \A p \in Procs :
       (pend[p].pc = "done" /\ pend[p].op = "get_tracks_by_departure_date"
          /\ pend[p].status = 200)
         => \A n, m \in DOMAIN pend[p].seen :
              pend[p].seen[n].departure_date = pend[p].seen[m].departure_date
                => pend[p].seen[n].status = pend[p].seen[m].status

C13_BatchStep ==
  /\ \A p \in Procs :
       (pend[p].pc = "selected" /\ pend'[p].pc = "done")
         => tracks' = [n \in DOMAIN tracks |->
                         IF tracks[n].departure_date = pend[p].date
                           THEN [tracks[n] EXCEPT !.status = pend[p].new_status]
                           ELSE tracks[n]]
  /\ tracks' # tracks
       => \E p \in Procs : pend[p].pc = "selected" /\ pend'[p].pc = "done"

NO_DATA == "no data"

\* datetime values: day number, minute of the day, second
DateTime(day, hm, sec) == [day |-> day, hm |-> hm, sec |-> sec]

\* datetime.datetime.combine(d, datetime.datetime.min.time())
combine_min(day) == DateTime(day, 0, 0)

\* event_date.strftime("%d.%m.%Y %H:%M"): date, hour and minute, no seconds
strftime(dt) == <<dt.day, dt.hm>>

\* datetime.datetime.now().date() at time now (clock 0 is 2024-01-01 00:00)
today(now) == 1 + (now \div (60 * 24))

\* next(i for i, flow in enumerate(STATUS_FLOW) if flow[0] == current_status),
\* 0 on StopIteration; 0-based
current_status_index(status) ==
  LET current_status == IF Truthy(status) THEN status ELSE STATUS_FLOW[1][1]
      hits == {i \in 1..Len(STATUS_FLOW) : STATUS_FLOW[i][1] = current_status}
  IN  IF hits = {} THEN 0
      ELSE (CHOOSE i \in hits : \A j \in hits : i <= j) - 1

\* the event_date of completed stage i (0-based) of a track: the value, or
\* raises = TRUE where datetime + timedelta leaves the range of datetime
\* (OverflowError)
event_date(track, i, now) ==
  LET base == IF track.departure_date # NoDate
                THEN track.departure_date[1] ELSE today(now)
      value(dt) == [raises |-> FALSE, value |-> dt]
  IN  CASE i = 0 -> IF track.created_at # NoDate
                      THEN value(track.created_at[1])
                      ELSE value(combine_min(today(now)))
        [] i = 1 -> value(combine_min(base))
        [] OTHER -> IF base + STATUS_FLOW[i + 1][2] > DATE_MAX
                      THEN [raises |-> TRUE, value |-> combine_min(DATE_MAX)]
                      ELSE value(combine_min(base + STATUS_FLOW[i + 1][2]))

generate_track_timeline_all_completed(track, now) ==
  [kind |-> "events",
   events |-> [i \in 1..Len(STATUS_FLOW) |->
                 [status |-> STATUS_FLOW[i][1],
                  date |-> strftime(combine_min(today(now))),
                  completed |-> TRUE]]]

\* generate_track_timeline(track) at time now: kind "events" with the list
\* returned, or kind "raise" with the exception that leaves the function
generate_track_timeline(track, now) ==
  LET k == current_status_index(track.status)
      raised == {i \in 0..k : event_date(track, i, now).raises}
  IN  IF raised # {}
        THEN [kind |-> "raise", events |-> << >>]
        ELSE [kind |-> "events",
              events |-> [i \in 1..Len(STATUS_FLOW) |->
                            [status |-> STATUS_FLOW[i][1],
                             date |-> IF i - 1 <= k
                                        THEN strftime(event_date(track, i - 1, now).value)
                                        ELSE NO_DATA,
                             completed |-> (i - 1 <= k)]]]

\* GET /api/tracks/search/{track_number}: search_track (public)
SearchTrack(tn) ==
  /\ IF tn \notin DOMAIN tracks
       THEN resp' = [op |-> "search_track", status |-> 404, by |-> 0, sub |-> "<invalid>"]
       ELSE LET t == generate_track_timeline(tracks[tn], clock)
            IN  resp' = [op |-> "search_track",
                         status |-> IF t.kind = "raise" THEN 500 ELSE 200,
                         by |-> 0, sub |-> "<invalid>",
                         track_number |-> tn, track |-> tracks[tn], at |-> clock,
                         status_timeline |-> t.events]
  /\ UNCHANGED <<users, tracks, audit, tokens, clock, decoded, pend>>

\* the track rows of the timeline runs: a row with its created_at column
StatusValues == {STATUS_FLOW[i][1] : i \in 1..Len(STATUS_FLOW)} \cup {None, "", "bogus"}
TimelineDateInputs == {"2024-01-01", "9999-12-16", "9999-12-31"}
TimelineDates == {strptime(d) : d \in TimelineDateInputs} \cup {NoDate}
CreatedAts == { <<DateTime(1, 615, 30)>> }
TimelineRows ==
  [status : StatusValues, departure_date : TimelineDates, personal_code : {None},
   is_archived : {FALSE}, created_at : CreatedAts]

InitTimeline ==
  /\ users = SeedUsers
  /\ \E row \in TimelineRows : tracks = [n \in {"KZ1"} |-> row]
  /\ audit = << >>
  /\ tokens = [e \in Emails |-> NoIssue]
  /\ clock = 0
  /\ resp = Resp("startup", 200, 0, "<invalid>")
  /\ decoded = [token |-> MalformedToken, at |-> 0,
                result |-> [kind |-> "idle", payload |-> NoPayload]]
  /\ pend = [p \in Procs |-> IdleReq]

NextTimeline ==
  \/ \E tn \in TrackNumbers : SearchTrack(tn)
  \/ Tick

\* the public search on stored tracks of every status and date
SpecTimeline == InitTimeline /\ [][NextTimeline]_vars

\* a search that found a track was answered
Searched == resp.op = "search_track" /\ resp.status # 404

\* the timeline arithmetic of the searched track stays within datetime
InRange ==
  \/ resp.track.departure_date = NoDate
  \/ resp.track.departure_date[1] + STATUS_FLOW[Len(STATUS_FLOW)][2] <= DATE_MAX

SixEntries(events) ==
  /\ Len(events) = Len(STATUS_FLOW)
  /\ \A i \in 1..Len(STATUS_FLOW) : events[i].status = STATUS_FLOW[i][1]

\* C14: for every stored track, whatever its status and departure date, the
\* timeline returned has exactly six entries, labelled with the six stages in
\* vocabulary order.
C14_AlwaysSixEntries ==
  Searched => (resp.status = 200 /\ SixEntries(resp.status_timeline))

\* C14, the part the code keeps: the same for every track whose departure
\* date is absent or at least 15 days before datetime.date.max.
C14_SixEntriesInRange ==
  (Searched /\ InRange) => (resp.status = 200 /\ SixEntries(resp.status_timeline))

PrefixCompleted(events, k) ==
  /\ Len(events) = Len(STATUS_FLOW)
  /\ \A i \in 1..Len(events) :
       /\ events[i].completed <=> (i - 1 <= k)
       /\ (events[i].date = NO_DATA) <=> ~events[i].completed

\* C15: for a track whose status is the stage at index k (0-based), entry i
\* is completed exactly when i <= k and shows the placeholder exactly when it
\* is not completed.
C15_CompletedPrefix ==
  \A k \in 0..(Len(STATUS_FLOW) - 1) :
    (Searched /\ resp.track.status = STATUS_FLOW[k + 1][1])
      => PrefixCompleted(resp.status_timeline, k)

\* C15, the part the code keeps: the same within the range of datetime.
C15_CompletedPrefixInRange ==
  \A k \in 0..(Len(STATUS_FLOW) - 1) :
    (Searched /\ InRange /\ resp.track.status = STATUS_FLOW[k + 1][1])
      => PrefixCompleted(resp.status_timeline, k)

\* the dates of the completed entries of a timeline for anchor day D
DatedFrom(events, track, D) ==
  /\ Len(events) = Len(STATUS_FLOW)
  /\ events[1].completed
  /\ events[1].date = <<track.created_at[1].day, track.created_at[1].hm>>
  /\ events[2].completed => events[2].date = <<D, 0>>
  /\ \A i \in 3..Len(events) :
       events[i].completed => events[i].date = <<D + STATUS_FLOW[i][2], 0>>

\* C16: completed stage 1 is dated by created_at, completed stage 2 by the
\* departure date D, every completed stage 3 to 6 by D plus its offset of
\* 5, 10, 10 and 15 days; without departure date today is D. A track at the
\* 4th stage with D = 2024-01-01 has four completed entries, the 3rd dated
\* 2024-01-06 and the 4th 2024-01-11.
C16_StageDates ==
  Searched =>
    /\ DatedFrom(resp.status_timeline, resp.track,
                 IF resp.track.departure_date # NoDate
                   THEN resp.track.departure_date[1] ELSE today(resp.at))
    /\ <<STATUS_FLOW[3][2], STATUS_FLOW[4][2], STATUS_FLOW[5][2], STATUS_FLOW[6][2]>>
         = <<5, 10, 10, 15>>
    /\ (resp.track.status = STATUS_FLOW[4][1] /\ resp.track.departure_date = <<1>>)
         => /\ {i \in 1..6 : resp.status_timeline[i].completed} = 1..4
            /\ resp.status_timeline[3].date = <<6, 0>>
            /\ resp.status_timeline[4].date = <<11, 0>>

\* C16, the part the code keeps: the same within the range of datetime.
C16_StageDatesInRange ==
  (Searched /\ InRange) =>
    /\ DatedFrom(resp.status_timeline, resp.track,
                 IF resp.track.departure_date # NoDate
                   THEN resp.track.departure_date[1] ELSE today(resp.at))
    /\ (resp.track.status = STATUS_FLOW[4][1] /\ resp.track.departure_date = <<1>>)
         => /\ {i \in 1..6 : resp.status_timeline[i].completed} = 1..4
            /\ resp.status_timeline[3].date = <<6, 0>>
            /\ resp.status_timeline[4].date = <<11, 0>>

\* C17: for a track whose status is null, empty or no stage label the
\* timeline is returned (nothing is raised) and is the timeline of index 0:
\* the first entry completed, the other five not completed and with the
\* placeholder.
C17_UnknownStatusIsIndexZero ==
  (Searched /\ resp.track.status \notin {STATUS_FLOW[i][1] : i \in 1..Len(STATUS_FLOW)})
    => /\ resp.status = 200
       /\ SixEntries(resp.status_timeline)
       /\ PrefixCompleted(resp.status_timeline, 0)

\* C17 witness: the search of a track with an unrecognized status and the
\* departure date 9999-12-31 returned a timeline with one completed entry
C17_Witness ==
  /\ Searched
  /\ resp.status = 200
  /\ resp.track.status = "bogus"
  /\ resp.track.departure_date = <<DATE_MAX>>
  /\ resp.status_timeline[1].completed
  /\ resp.status_timeline[2].date = NO_DATA

\* ---------------------------------------------------------------------
\* Account creation (crud.py, main.py)
\* ---------------------------------------------------------------------
\* personal codes that are decimal numbers, and str() of their values
NumericCodes == {"106", "107", "108", "109"}

\* personal_code.cast(Integer) where the store casts text leniently (SQLite):
\* the number, 0 for text without leading digits
cast_integer(code) ==
  CASE code = "106" -> 106
    [] code = "107" -> 107
    [] code = "108" -> 108
    [] code = "109" -> 109
    [] OTHER -> 0

\* str(n)
str(n) ==
  CASE n = 1 -> "1"
    [] n = 107 -> "107"
    [] n = 108 -> "108"
    [] n = 109 -> "109"
    [] OTHER -> "110"

SetMax(S) == CHOOSE x \in S : \A y \in S : y <= x

\* get_next_personal_code(db): the outcomes [raises, code]. A store that
\* casts strictly (PostgreSQL) fails the query on a code that is no number.
get_next_personal_code(store) ==
  IF store = {} THEN {[raises |-> FALSE, code |-> "1"]}
  ELSE LET next == str(SetMax({cast_integer(u.personal_code) : u \in store}) + 1)
       IN  IF \E u \in store : u.personal_code \notin NumericCodes
             THEN {[raises |-> TRUE, code |-> None], [raises |-> FALSE, code |-> next]}
             ELSE {[raises |-> FALSE, code |-> next]}

\* the unique indexes of users: email, whatsapp, personal_code
unique_violation(store, row) ==
  \E u \in store :
    \/ u.email = row.email
    \/ u.whatsapp = row.whatsapp
    \/ u.personal_code = row.personal_code

\* the id the store gives a new row
next_id(store) == IF store = {} THEN 1 ELSE SetMax({u.id : u \in store}) + 1

insert_user_unchecked(store, row) ==
  [raised |-> FALSE, users |-> store \cup {[row EXCEPT !.id = next_id(store)]}]

\* db.add(user); db.commit() of create_user: [raised, users], raised = TRUE
\* for the IntegrityError that create_user rolls back and turns into
\* ValueError("Email, WhatsApp, or personal code already exists.")
insert_user(store, row) ==
  IF unique_violation(store, row)
    THEN [raised |-> TRUE, users |-> store]
    ELSE [raised |-> FALSE, users |-> store \cup {[row EXCEPT !.id = next_id(store)]}]

\* registration requests
NewEmails == {"a@test.com", "b@test.com"}
NewWhatsapps == {"777", "888"}
NewCodes == {None, "107"}

\* the salt bcrypt draws for the password of a registration
RegisterSalts == {CHOOSE salt \in Salts : TRUE}

\* a bound of the model: rows in the users table
MaxUsers == 4

\* POST /api/auth/register: register_user, up to db.add(user): create_user
\* picks the personal code and hashes the password
RegisterBegin(p, email, whatsapp, personal_code, salt) ==
  /\ pend[p].pc \in {"idle", "done"}
  /\ Cardinality(users) < MaxUsers
  /\ LET op == "register_user"
         row(code) == [id |-> 0, email |-> email, personal_code |-> code,
                       whatsapp |-> whatsapp,
                       hashed_password |-> hash_password("client123", salt),
                       role |-> "client", is_active |-> TRUE, name |-> "New Client"]
         selected(code) == [pc |-> "selected", op |-> op, status |-> 0,
                            raised |-> "", row |-> row(code)]
     IN  IF Truthy(personal_code)
           THEN pend' = [pend EXCEPT ![p] = selected(personal_code)]
           ELSE \E o \in get_next_personal_code(users) :
                  IF o.raises
                    THEN pend' = [pend EXCEPT ![p] =
                                    [pc |-> "done", op |-> op, status |-> 500,
                                     raised |-> "DBAPIError", row |-> row(None)]]
                    ELSE pend' = [pend EXCEPT ![p] = selected(o.code)]
  /\ UNCHANGED <<users, tracks, audit, tokens, clock, resp, decoded>>

\* db.commit() of create_user and the response of register_user
RegisterCommit(p) ==
  /\ pend[p].pc = "selected"
  /\ pend[p].op = "register_user"
  /\ LET r == insert_user(users, pend[p].row)
     IN  /\ users' = r.users
         /\ pend' = [pend EXCEPT ![p] =
                       [pend[p] EXCEPT !.pc = "done",
                                       !.status = IF r.raised THEN 400 ELSE 200,
                                       !.raised = IF r.raised THEN "ValueError" ELSE ""]]
  /\ UNCHANGED <<tracks, audit, tokens, clock, resp, decoded>>

\* the bearer strings of the administrators
AdminCallers ==
  {Bearer(create_user_token(u, clock)) : u \in {x \in users : x.is_active /\ x.role = "admin"}}

NextCreate ==
  \/ \E p \in Procs, email \in NewEmails, whatsapp \in NewWhatsapps,
        personal_code \in NewCodes, salt \in RegisterSalts :
       RegisterBegin(p, email, whatsapp, personal_code, salt)
  \/ \E p \in Procs : RegisterCommit(p)
  \/ \E cred \in AdminCallers, user_id \in 1..MaxUsers : DeleteUser(cred, user_id)

\* registrations side by side, and deletions
SpecCreate == Init /\ [][NextCreate]_vars

\* C18: in every reachable state no two principals share an email, a
\* personal code or a whatsapp handle, registrations running side by side
\* included; a creation whose row would duplicate one of the three on a
\* stored principal ends with the ValueError of create_user (the conflict
\* outcome) and leaves the users table as it was.
C18_UniqueState ==
  \A u \in users : \A v \in users :
    u # v => /\ u.email # v.email
             /\ u.personal_code # v.personal_code
             /\ u.whatsapp # v.whatsapp

C18_CreateStep ==
  \A p \in Procs :
    (/\ pend[p].pc = "selected"
     /\ pend[p].op = "register_user"
     /\ pend'[p].pc = "done"
     /\ unique_violation(users, pend[p].row))
      => /\ pend'[p].raised = "ValueError"
         /\ users' = users

BulkFiles ==
  { <<"KZ1", "KZ2", "KZ3", Overlong>>,
    <<"KZ1", Overlong, "KZ2", "KZ3">>,
    <<Overlong, "KZ1", "KZ2", "KZ3">>,
    <<"KZ1", "", "nan", "KZ2">> }

NextUpload ==
  \/ \E cred \in Callers, rows \in BulkFiles, d \in DateInputs, st \in StatusInputs :
       UploadTracks(cred, rows, d, st)
  \/ \E cred \in Callers, tn \in BatchNumbers : ArchiveTrack(cred, tn)

SpecUpload == Init /\ [][NextUpload]_vars

\* the rows of the last upload that are stored with the uploaded status and
\* departure date
Persisted(trk, r) ==
  {i \in 1..Len(ValidRows(r.rows)) :
     LET tn == ValidRows(r.rows)[i]
     IN  /\ tn \in DOMAIN trk
         /\ trk[tn].status = r.new_status
         /\ trk[tn].departure_date = r.departure_date}

\* an upload that passed require_admin and the parsing of the date
Processed(r) == r.op = "upload_tracks" /\ r.status \notin {400, 401, 403}

\* C19: a bulk upload with a failing row is answered with the report; count
\* is the number of rows persisted, count plus the number of errors is the
\* number of non-empty rows, and every row that is a track number of valid
\* length, before and after the failing row, is persisted.
C19_UploadStep ==
  Processed(resp') =>
    /\ resp'.status = 200
    /\ resp'.count = Cardinality(Persisted(tracks', resp'))
    /\ resp'.count + resp'.total_errors = Len(ValidRows(resp'.rows))
    /\ \A i \in 1..Len(ValidRows(resp'.rows)) :
         ValidRows(resp'.rows)[i] # Overlong => i \in Persisted(tracks', resp')

C19_FailingRowDoesNotAbort == [][C19_UploadStep]_vars

\* ---------------------------------------------------------------------
\* Accounts deleted while tracks carry their personal codes (crud.py)
\* ---------------------------------------------------------------------
NextOrphan ==
  \/ \E cred \in Callers, tn \in TrackNumbers, code \in Codes : AssignTrack(cred, tn, code)
  \/ \E cred \in Callers, tn \in TrackNumbers : ArchiveTrack(cred, tn)
  \/ \E cred \in Callers, user_id \in UserIds : DeleteUser(cred, user_id)

SpecOrphan == Init /\ [][NextOrphan]_vars

\* C20: deleting a principal changes no track: every track, those carrying
\* the deleted principal's personal code included, is stored after the
\* deletion with the owner code, status, departure date and archived flag it
\* had before.
C20_DeleteStep ==
  (resp'.op = "delete_user_by_id" \/ users' # users) => tracks' = tracks

C20_DeleteUserKeepsTracks == [][C20_DeleteStep]_vars

\* a principal was deleted and a track still carries its personal code,
\* which no stored principal has
C20_Witness ==
  /\ resp.op = "delete_user_by_id"
  /\ resp.status = 200
  /\ \E tn \in DOMAIN tracks :
       /\ tracks[tn].personal_code = "106"
       /\ \A u \in users : u.personal_code # "106"

\* ---------------------------------------------------------------------
\* Password management (main.py)
\* ---------------------------------------------------------------------
\* the shortest new password change_own_password accepts
MIN_PASSWORD_LENGTH == 6

\* len(password) for the passwords of the model
len(password) ==
  CASE password = "" -> 0
    [] password = "short" -> 5
    [] password = "secret7" -> 7
    [] password = "admin123" -> 8
    [] password = "client123" -> 9
    [] password \in LongPasswords -> 73
    [] OTHER -> 10

\* the users table with the hash of one row replaced
set_hashed_password(store, user_id, hashed_password) ==
  {IF u.id = user_id THEN [u EXCEPT !.hashed_password = hashed_password] ELSE u : u \in store}

change_own_password_skip_checks(current_user, old_password, new_password) == 200

\* the checks of change_own_password in source order: the HTTP status of
\* the HTTPException raised, 500 for an error of verify_password, 200 when
\* the password is replaced
change_own_password(current_user, old_password, new_password) ==
  LET v == verify_password(old_password, current_user.hashed_password)
  IN  CASE v.raises -> 500
        [] ~v.value -> 401
        [] len(new_password) < MIN_PASSWORD_LENGTH -> 400
        [] old_password = new_password -> 400
        [] OTHER -> 200

\* POST /api/auth/change-password: change_own_password
ChangeOwnPassword(cred, old_password, new_password, salt) ==
  /\ \E o \in Guard("POST", "/api/auth/change-password", cred, users, clock) :
       LET op == "change_own_password"
           sent == [old_password |-> old_password, new_password |-> new_password]
       IN  IF o.status # 200
             THEN /\ resp' = Resp(op, o.status, 0, Subject(cred, clock)) @@ sent
                  /\ UNCHANGED <<users, audit>>
             ELSE LET st == change_own_password(o.user, old_password, new_password)
                  IN  IF st # 200
                        THEN /\ resp' = Resp(op, st, o.user.id, Subject(cred, clock)) @@ sent
                             /\ UNCHANGED <<users, audit>>
                        ELSE /\ Len(audit) < MaxLog
                             /\ users' = set_hashed_password(users, o.user.id,
                                                             hash_password(new_password, salt))
                             /\ audit' = create_audit_log(audit, "change_password",
                                                          o.user.email, "user", o.user.id,
                                                          "User changed their own password")
                             /\ resp' = Resp(op, 200, o.user.id, Subject(cred, clock)) @@ sent
  /\ UNCHANGED <<tracks, tokens, clock, decoded, pend>>

\* POST /api/admin/users/{user_id}/reset-password: reset_user_password
ResetPassword(cred, user_id, new_password, salt) ==
  /\ \E o \in Guard("POST", "/api/admin/users/{user_id}/reset-password", cred, users, clock) :
       LET op == "reset_user_password"
       IN  IF o.status # 200
             THEN /\ resp' = Resp(op, o.status, 0, Subject(cred, clock))
                  /\ UNCHANGED <<users, audit>>
             ELSE IF \A u \in users : u.id # user_id
               THEN /\ resp' = Resp(op, 404, o.user.id, Subject(cred, clock))
                    /\ UNCHANGED <<users, audit>>
               ELSE /\ Len(audit) < MaxLog
                    /\ users' = set_hashed_password(users, user_id,
                                                    hash_password(new_password, salt))
                    /\ audit' = create_audit_log(audit, "reset_password", o.user.email,
                                                 "user", user_id,
                                                 {u.email : u \in {x \in users : x.id = user_id}})
                    /\ resp' = Resp(op, 200, o.user.id, Subject(cred, clock))
  /\ UNCHANGED <<tracks, tokens, clock, decoded, pend>>

\* request bodies of the password handlers
OldPasswords == {"client123", "secret7"}
NewPasswords == {"short", "client123", "secret7"}

NextPassword ==
  \/ \E cred \in Callers, old \in OldPasswords, new \in NewPasswords, salt \in RegisterSalts :
       ChangeOwnPassword(cred, old, new, salt)
  \/ \E cred \in Callers, user_id \in UserIds, new \in NewPasswords, salt \in RegisterSalts :
       ResetPassword(cred, user_id, new, salt)
  \/ \E cred \in Callers, user_id \in UserIds : DeleteUser(cred, user_id)

SpecPassword == Init /\ [][NextPassword]_vars

\* C21: the audit log is append-only: every step leaves the entries written
\* so far in place, with their action, actor, target and details, and at
\* most adds entries after them; so the log of a later state extends the
\* log of every earlier state.
C21_AppendStep ==
  /\ Len(audit') >= Len(audit)
  /\ SubSeq(audit', 1, Len(audit)) = audit

C21_AuditAppendOnly == [][C21_AppendStep]_vars

\* a password reset was logged after a password change
C21_Witness ==
  /\ Len(audit) = 2
  /\ audit[1].action = "change_password"
  /\ audit[2].action = "reset_password"

\* ---------------------------------------------------------------------
\* Logins against stored hashes of any form (auth.py)
\* ---------------------------------------------------------------------
\* values of users.hashed_password: digests of bcrypt and values that are
\* no digest (rows written by other tools or by an earlier hashing scheme)
StoredHashes == MalformedHashes \cup {hash_password(pw, 1) : pw \in Passwords}

InitVerify ==
  /\ \E h \in [UserIds -> StoredHashes] :
       users = {[u EXCEPT !.hashed_password = h[u.id]] : u \in SeedUsers}
  /\ tracks = << >>
  /\ audit = << >>
  /\ tokens = [e \in Emails |-> NoIssue]
  /\ clock = 0
  /\ resp = Resp("startup", 200, 0, "<invalid>")
  /\ decoded = [token |-> MalformedToken, at |-> 0,
                result |-> [kind |-> "idle", payload |-> NoPayload]]
  /\ pend = [p \in Procs |-> IdleReq]

NextVerify ==
  \/ \E email \in Emails, password \in Passwords : Login(email, password)
  \/ \E cred \in Callers, old \in OldPasswords, new \in NewPasswords, salt \in RegisterSalts :
       ChangeOwnPassword(cred, old, new, salt)

SpecVerify == InitVerify /\ [][NextVerify]_vars

\* C22: verify never raises: a login or a password change against a record
\* whose stored hash is malformed is answered as invalid credentials (401),
\* never as a crash (500), and verify_password returns a value for every
\* password and every stored hash.
C22_VerifyNeverRaises ==
  /\ resp.op \in {"login_user", "change_own_password"} => resp.status # 500
  /\ resp.op \in {"login_user", "change_own_password"} =>
       \A u \in users : \A pw \in Passwords : ~verify_password(pw, u.hashed_password).raises

\* ---------------------------------------------------------------------
\* hash_password and verify_password as functions (auth.py)
\* ---------------------------------------------------------------------
HashInputs == {"client123", "secret7", LongA, LongB}

\* the bcrypt release of the build: strict releases reject a password of
\* more than 72 bytes
BcryptStrict == BOOLEAN

\* the digests the calls so far returned
Hashed == {q \in Procs : pend[q].pc = "hashed"}

\* call q of hash_password(password). bcrypt.gensalt() draws 16 random
\* bytes: a salt no digest made so far carries.
HashPassword(q, password, salt, strict) ==
  /\ \A r \in Hashed : pend[r].strict = strict
  /\ \A r \in Hashed \ {q} : IF pend[r].raises THEN TRUE ELSE pend[r].value[2] # salt
  /\ LET h == bcrypt_hashpw(password, salt, strict)
     IN  pend' = [pend EXCEPT ![q] = [pc |-> "hashed", op |-> "hash_password",
                                      password |-> password, strict |-> strict,
                                      raises |-> h.raises, value |-> h.value]]
  /\ UNCHANGED <<users, tracks, audit, tokens, clock, resp, decoded>>

\* verify_password(plain_password, hashed_password) on the digest call q returned
VerifyPassword(q, plain_password) ==
  /\ q \in Hashed
  /\ ~pend[q].raises
  /\ LET v == verify_password(plain_password, pend[q].value)
     IN  resp' = [op |-> "verify_password", status |-> 0, by |-> 0, sub |-> "<invalid>",
                  plain_password |-> plain_password, hashed |-> pend[q].password,
                  raises |-> v.raises, value |-> v.value]
  /\ UNCHANGED <<users, tracks, audit, tokens, clock, decoded, pend>>

NextHash ==
  \/ \E q \in Procs, password \in HashInputs, salt \in Salts, strict \in BcryptStrict :
       HashPassword(q, password, salt, strict)
  \/ \E q \in Procs, plain_password \in HashInputs : VerifyPassword(q, plain_password)

SpecHash == Init /\ [][NextHash]_vars

\* C23: hash(p) returns a digest for every password p; verify(p, hash(p2))
\* is true exactly when p = p2; two calls of hash(p) return different
\* strings.
C23_HashVerifyRoundTrip ==
  /\ \A q \in Hashed : ~pend[q].raises
  /\ resp.op = "verify_password" =>
       /\ ~resp.raises
       /\ resp.value = (resp.plain_password = resp.hashed)
  /\ \A q \in Hashed : \A r \in Hashed \ {q} :
       pend[q].password = pend[r].password => pend[q].value # pend[r].value

\* the same for passwords of at most 72 bytes
C23_HashVerifyRoundTripShort ==
  /\ \A q \in Hashed : pend[q].password \notin LongPasswords => ~pend[q].raises
  /\ (/\ resp.op = "verify_password"
      /\ resp.plain_password \notin LongPasswords
      /\ resp.hashed \notin LongPasswords) =>
       /\ ~resp.raises
       /\ resp.value = (resp.plain_password = resp.hashed)
  /\ \A q \in Hashed : \A r \in Hashed \ {q} :
       (pend[q].password = pend[r].password /\ ~pend[q].raises /\ ~pend[r].raises)
         => pend[q].value # pend[r].value

\* C24: in every reachable state the status of every stored track is one
\* of the six labels of STATUS_FLOW.
C24_StatusInVocabulary ==
  \A tn \in DOMAIN tracks :
    tracks[tn].status \in {STATUS_FLOW[i][1] : i \in 1..Len(STATUS_FLOW)}

\* C25: claim(track_number, code) on a number with no record adds exactly
\* one record: status the stage-1 label, owner code, no departure date, not
\* archived; on a stored track without owner it sets the owner and leaves
\* status, departure date and archived flag; on a track the code already
\* owns it succeeds and changes nothing. No other record changes.
C25_ClaimState ==
  \A tn \in TrackNumbers : \A code \in Codes :
    LET r == assign_track_to_user(tracks, tn, code)
        others == \A n \in DOMAIN tracks \ {tn} : r.tracks[n] = tracks[n]
    IN  /\ tn \notin DOMAIN tracks =>
             /\ ~r.raised
             /\ DOMAIN r.tracks = DOMAIN tracks \cup {tn}
             /\ r.tracks[tn] = Row(STATUS_FLOW[1][1], NoDate, code, FALSE)
             /\ others
        /\ (tn \in DOMAIN tracks /\ tracks[tn].personal_code = None) =>
             /\ ~r.raised
             /\ DOMAIN r.tracks = DOMAIN tracks
             /\ r.tracks[tn] = [tracks[tn] EXCEPT !.personal_code = code]
             /\ others
        /\ (tn \in DOMAIN tracks /\ tracks[tn].personal_code = code) =>
             /\ ~r.raised
             /\ r.tracks = tracks

\* a claim answered with success stored what assign_track_to_user returns
C25_ClaimStep ==
  (resp'.op = "assign_track_endpoint" /\ resp'.status = 200) =>
    \E tn \in TrackNumbers : \E code \in Codes :
      /\ ~assign_track_to_user(tracks, tn, code).raised
      /\ tracks' = assign_track_to_user(tracks, tn, code).tracks

C25_ClaimCreatesOrAssigns == []C25_ClaimState /\ [][C25_ClaimStep]_vars

\* a track from a bulk upload was claimed: it has the owner and still the
\* uploaded departure date
C25_Witness ==
  /\ resp.op = "assign_track_endpoint"
  /\ resp.status = 200
  /\ \E tn \in DOMAIN tracks :
       /\ tracks[tn].personal_code = "106"
       /\ tracks[tn].departure_date = strptime("2024-01-01")
       /\ tracks[tn].status # STATUS_FLOW[1][1]

\* C26: a change-password request of an authenticated principal replaces
\* the stored hash exactly when the old password verifies against the stored
\* hash, the new password has at least 6 characters and differs from the old
\* one, and then one audit entry is written; a wrong old password is
\* answered 401, a short or unchanged new password 400, and in these cases
\* and for a caller that is not authenticated the users table and the audit
\* log stay as they were.
C26_ChangeStep ==
  resp'.op = "change_own_password" =>
    IF resp'.by = 0
      THEN users' = users /\ audit' = audit
      ELSE LET u == CHOOSE x \in users : x.id = resp'.by
               old == resp'.old_password
               new == resp'.new_password
               verified == verify_password(old, u.hashed_password).value
           IN  IF verified /\ len(new) >= MIN_PASSWORD_LENGTH /\ new # old
                 THEN /\ resp'.status = 200
                      /\ \E v \in users' :
                           /\ v.id = u.id
                           /\ verify_password(new, v.hashed_password).value
                           /\ users' \ {v} = users \ {u}
                      /\ Len(audit') = Len(audit) + 1
                      /\ audit'[Len(audit')].action = "change_password"
                 ELSE /\ resp'.status = IF verified THEN 400 ELSE 401
                      /\ users' = users
                      /\ audit' = audit

C26_ChangePasswordChecks == [][C26_ChangeStep]_vars

\* after a password change to "secret7", a request to change "secret7" to
\* "secret7" is refused
C26_Witness ==
  /\ resp.op = "change_own_password"
  /\ resp.status = 400
  /\ resp.old_password = "secret7"
  /\ resp.new_password = "secret7"
  /\ Len(audit) >= 1
  /\ audit[1].action = "change_password"

\* C27: when two requests with different personal codes claim the same
\* stored track side by side, at most one of them answers with success, and
\* the owner stored at the end is the code of the request that succeeded.
C27_NoLostAssignment ==
  \A p, q \in Procs :
    (RacedPair(p, q) /\ pend[p].found /\ pend[q].found) =>
      /\ ~(pend[p].status = 200 /\ pend[q].status = 200)
      /\ pend[p].status = 200 =>
           /\ pend[p].tn \in DOMAIN tracks
           /\ tracks[pend[p].tn].personal_code = pend[p].code

\* ---------------------------------------------------------------------
\* Tokens of accounts that are deleted and registered again (auth.py)
\* ---------------------------------------------------------------------
\* the bearer strings the clients hold
HeldCreds == {Bearer(t) : t \in IssuedTokens}

NextReissue ==
  \/ \E email \in Emails, password \in Passwords : Login(email, password)
  \/ \E cred \in AdminCallers, user_id \in 1..MaxUsers : DeleteUser(cred, user_id)
  \/ \E p \in Procs, email \in Emails, salt \in RegisterSalts :
       RegisterBegin(p, email, "777", None, salt)
  \/ \E p \in Procs : RegisterCommit(p)
  \/ \E cred \in HeldCreds : GetMe(cred)

SpecReissue == Init /\ [][NextReissue]_vars

\* C28: a token authenticates only as the principal record it was issued
\* to: whenever get_current_user resolves a token a client holds, the
\* principal it returns has the id of the principal the token was issued
\* for, also after users were deleted and created.
C28_TokenBoundToPrincipal ==
  /\ \A e \in Emails :
       tokens[e] # NoIssue =>
         \A o \in get_current_user(Bearer(tokens[e].tok), users, clock) :
           o.status = 200 => o.user.id = tokens[e].user.id
  /\ (resp.op = "get_current_user_info" /\ resp.status = 200 /\ resp.sub \in Emails)
       => resp.by = tokens[resp.sub].user.id

StatusWriters ==
  {"update_track_status", "deliver_scanned_parcels", "batch_update_status_by_date",
   "upload_tracks"}

\* C29: a step that changes the status or the departure date of a stored
\* track is a single status update, scanner deliver, batch status update or
\* bulk upload that was answered with success to an authenticated, active
\* principal whose stored role is admin; no request without credentials or
\* of a client does it.
C29_StatusChangeStep ==
  (\E tn \in DOMAIN tracks \cap DOMAIN tracks' :
     \/ tracks'[tn].status # tracks[tn].status
     \/ tracks'[tn].departure_date # tracks[tn].departure_date)
    => /\ resp'.op \in StatusWriters
       /\ resp'.status = 200
       /\ \E u \in users : u.id = resp'.by /\ u.role = "admin" /\ u.is_active

C29_StatusChangeOnlyByAdmin == [][C29_StatusChangeStep]_vars

\* a client asked for a status update of a stored track and was refused
C29_Witness ==
  /\ resp.op = "update_track_status"
  /\ resp.status = 403
  /\ resp.sub = "client@test.com"
  /\ "KZ1" \in DOMAIN tracks

\* ---------------------------------------------------------------------
\* Roles of created accounts (main.py)
\* ---------------------------------------------------------------------
\* POST /api/users: add_user_admin
AddUserAdmin(cred, email, whatsapp, personal_code, role, salt) ==
  /\ Cardinality(users) < MaxUsers
  /\ \E o \in Guard("POST", "/api/users", cred, users, clock) :
       LET op == "add_user_admin"
           row(code) == [id |-> 0, email |-> email, personal_code |-> code,
                         whatsapp |-> whatsapp,
                         hashed_password |-> hash_password("client123", salt),
                         role |-> role, is_active |-> TRUE, name |-> "New Client"]
       IN  IF o.status # 200
             THEN /\ resp' = Resp(op, o.status, 0, Subject(cred, clock))
                  /\ UNCHANGED <<users, audit>>
             ELSE \E c \in IF Truthy(personal_code)
                             THEN {[raises |-> FALSE, code |-> personal_code]}
                             ELSE get_next_personal_code(users) :
                    IF c.raises
                      THEN /\ resp' = Resp(op, 500, o.user.id, Subject(cred, clock))
                           /\ UNCHANGED <<users, audit>>
                      ELSE LET r == insert_user(users, row(c.code))
                           IN  IF r.raised
                                 THEN /\ resp' = Resp(op, 400, o.user.id, Subject(cred, clock))
                                      /\ UNCHANGED <<users, audit>>
                                 ELSE /\ Len(audit) < MaxLog
                                      /\ users' = r.users
                                      /\ audit' = create_audit_log(audit, "create_user",
                                                                   o.user.email, "user",
                                                                   next_id(users),
                                                                   <<email, role>>)
                                      /\ resp' = Resp(op, 200, o.user.id, Subject(cred, clock))
  /\ UNCHANGED <<tracks, tokens, clock, decoded, pend>>

NextRoles ==
  \/ \E p \in Procs, email \in NewEmails, salt \in RegisterSalts :
       RegisterBegin(p, email, "777", None, salt)
  \/ \E p \in Procs : RegisterCommit(p)
  \/ \E cred \in Callers, email \in NewEmails, whatsapp \in NewWhatsapps,
        role \in Roles, salt \in RegisterSalts :
       AddUserAdmin(cred, email, whatsapp, None, role, salt)

SpecRoles == Init /\ [][NextRoles]_vars

Admins(store) == {u.id : u \in {x \in store : x.role = "admin"}}

\* C30: a principal with role admin appears only by a create-user request
\* answered with success to a stored, active admin, so no sequence of
\* requests of callers without credentials and of clients produces one;
\* every row a public registration stores is an active client.
C30_NewAdminStep ==
  Admins(users') \ Admins(users) # {} =>
    /\ resp'.op = "add_user_admin"
    /\ resp'.status = 200
    /\ \E a \in users : a.id = resp'.by /\ a.role = "admin" /\ a.is_active

C30_RegisteredStep ==
  \A p \in Procs :
    (pend[p].pc = "selected" /\ pend[p].op = "register_user"
       /\ pend'[p].pc = "done" /\ pend'[p].status = 200) =>
      \E u \in users' :
        /\ u.id \notin {x.id : x \in users}
        /\ users' = users \cup {u}
        /\ u.email = pend[p].row.email
        /\ u.role = "client"
        /\ u.is_active

C30_NoAdminWithoutAdmin == [][C30_NewAdminStep /\ C30_RegisteredStep]_vars

\* a client asked to create an admin and was refused, a public registration
\* was stored, and the only admin is the seeded one
C30_Witness ==
  /\ resp.op = "add_user_admin"
  /\ resp.status = 403
  /\ resp.sub = "client@test.com"
  /\ \E p \in Procs : pend[p].pc = "done" /\ pend[p].status = 200
  /\ Admins(users) = Admins(SeedUsers)
  /\ Cardinality(users) > Cardinality(SeedUsers)

====
